---- MODULE Spec2Model ----
(***************************************************************************)
(* Grant Finder: the evidence-backed status engine                         *)
(* (internal/ingest/status_engine.go), the SaveOpportunity upsert, the     *)
(* RecomputeStatuses sweep and the EnrichOpportunities pass                *)
(* (internal/ingest/pipeline.go) over the opportunities table.             *)
(*                                                                         *)
(* Conventions.                                                            *)
(*  - An instant is an integer (one unit = one day, 2026-02-0d UTC).       *)
(*  - A Go pointer / SQL nullable column is a sequence of length <= 1:     *)
(*    Nil is <<>>, a set value v is <<v>>.                                 *)
(*  - A float64 confidence is the integer number of hundredths.            *)
(*  - Strings are TLA+ strings; substring search, lower-casing and         *)
(*    trimming are computed character by character.                        *)
(***************************************************************************)
EXTENDS Integers, Sequences, FiniteSets, TLC

VARIABLES
    rows,       \* the opportunities table: a sequence of rows, id = index
    now,        \* the wall clock (time.Now / SQL NOW())
    lastOp,     \* what the last operation did (kind, result, EXCLUDED values)
    maxWritten, \* history: per key, the largest confidence any upsert carried
    opp,        \* status-engine harness: the opportunity under decision
    decision,   \* status-engine harness: the last StatusDecision returned
    picked,     \* status-engine harness: the last pickNextDeadline result
    runningJob, \* Server.runningJob: 0 is nil, else an index into jobs
    jobs,       \* every backgroundJob allocated, with its goroutine's position
    jobMu,      \* Server.jobMu: Unlocked or the holder
    requests,   \* the POST /admin/recompute-status requests in flight
    calls,      \* the SaveOpportunity calls running side by side, each with its position
    startRows,  \* history: the table before the first of these calls
    fetch,      \* RateLimitedFetcher.Fetch: the call in progress and its position
    ingest,     \* IngestSource: the run in progress, its stats and its ingest_runs row
    queried,    \* what the last ListOpportunities or GetAggregations returned
    migrate,    \* ApplyMigrations: the run in progress, schema_migrations, what was executed
    canon,    \* CanonicalizeURL: the string given, the result, the result of the result
    crawl     \* HtmlGenericStrategy.runWithColly: the pagination loop and the pages it visited

serverVars == <<runningJob, jobs, jobMu, requests>>

callVars == <<calls, startRows>>

\* what the status engine, the upsert and the sweeps never touch
restVars == <<serverVars, callVars, fetch, ingest, queried, migrate,
      canon,
      crawl>>

\* what the admin server never touches, the table apart
beyondServer ==
    <<now, lastOp, maxWritten, opp, decision, picked, callVars, fetch, ingest, queried,
      migrate,
      canon,
      crawl>>

\* what the calls running side by side never touch, the table apart
beyondCalls ==
    <<now, lastOp, maxWritten, opp, decision, picked, serverVars, fetch, ingest, queried,
      migrate,
      canon,
      crawl>>

\* what the fetcher never touches
beyondFetch ==
    <<rows, now, lastOp, maxWritten, opp, decision, picked, serverVars, callVars, ingest,
      queried, migrate,
      canon,
      crawl>>

\* what an ingest run never touches, the table apart
beyondIngest ==
    <<now, lastOp, maxWritten, opp, decision, picked, serverVars, callVars, fetch, queried,
      migrate,
      canon,
      crawl>>

\* what the queries of the store never touch
beyondQueries ==
    <<rows, now, lastOp, maxWritten, opp, decision, picked, serverVars, callVars, fetch,
      ingest, migrate,
      canon,
      crawl>>

\* what ApplyMigrations never touches
beyondMigrate ==
    <<rows, now, lastOp, maxWritten, opp, decision, picked, serverVars, callVars, fetch,
      ingest, queried,
      canon,
      crawl>>

\* what CanonicalizeURL never touches
beyondCanon ==
    <<rows, now, lastOp, maxWritten, opp, decision, picked, serverVars, callVars, fetch,
      ingest, queried,
      migrate,
      crawl>>

\* what the pagination loop never touches
beyondCrawl ==
    <<rows, now, lastOp, maxWritten, opp, decision, picked, serverVars, callVars, fetch,
      ingest, queried,
      migrate,
      canon>>

vars == <<rows, now, lastOp, maxWritten, opp, decision, picked, restVars>>

-----------------------------------------------------------------------------
(* Bounds *)

MaxTime == 3    \* instants carried by dates range over 1..MaxTime
MaxNow == 2     \* the clock ranges over 1..MaxNow

-----------------------------------------------------------------------------
(* Pointers *)

Nil == <<>>
Ptr(v) == <<v>>
IsSet(p) == p # <<>>
Val(p) == p[1]

\* t.After(now) on a nullable instant
AfterNow(p, t) == IsSet(p) /\ Val(p) > t

Max2(a, b) == IF a > b THEN a ELSE b

SetMin(S) == CHOOSE m \in S : \A x \in S : m <= x

RECURSIVE SeqToSet(_)
SeqToSet(s) == IF s = <<>> THEN {} ELSE {Head(s)} \cup SeqToSet(Tail(s))

-----------------------------------------------------------------------------
(* Strings *)

Contains(s, sub) ==
    \E i \in 1..(Len(s) - Len(sub) + 1) : SubSeq(s, i, i + Len(sub) - 1) = sub

\* the ASCII upper-case letters and their lower-case forms
LowerOf ==
    "A" :> "a" @@ "B" :> "b" @@ "C" :> "c" @@ "D" :> "d" @@ "E" :> "e" @@ "F" :> "f"
    @@ "G" :> "g" @@ "H" :> "h" @@ "I" :> "i" @@ "J" :> "j" @@ "K" :> "k" @@ "L" :> "l"
    @@ "M" :> "m" @@ "N" :> "n" @@ "O" :> "o" @@ "P" :> "p" @@ "Q" :> "q" @@ "R" :> "r"
    @@ "S" :> "s" @@ "T" :> "t" @@ "U" :> "u" @@ "V" :> "v" @@ "W" :> "w" @@ "X" :> "x"
    @@ "Y" :> "y" @@ "Z" :> "z"

LowerChar(c) == IF c \in DOMAIN LowerOf THEN LowerOf[c] ELSE c

RECURSIVE ToLower(_)
ToLower(s) ==
    IF Len(s) = 0 THEN ""
    ELSE LowerChar(SubSeq(s, 1, 1)) \o ToLower(SubSeq(s, 2, Len(s)))

IsSpace(c) == c \in {" ", "\n", "\t", "\r"}

RECURSIVE TrimLeft(_)
TrimLeft(s) ==
    IF Len(s) = 0 THEN ""
    ELSE IF IsSpace(SubSeq(s, 1, 1)) THEN TrimLeft(SubSeq(s, 2, Len(s)))
    ELSE s

RECURSIVE TrimRight(_)
TrimRight(s) ==
    IF Len(s) = 0 THEN ""
    ELSE IF IsSpace(SubSeq(s, Len(s), Len(s))) THEN TrimRight(SubSeq(s, 1, Len(s) - 1))
    ELSE s

TrimSpace(s) == TrimRight(TrimLeft(s))

\* strings.Join(strings.Fields(s), " "): runs of white space become one space
RECURSIVE CollapseSpace(_, _)
CollapseSpace(s, prevSpace) ==
    IF Len(s) = 0 THEN ""
    ELSE LET c == SubSeq(s, 1, 1)
             rest == SubSeq(s, 2, Len(s))
         IN  IF IsSpace(c)
             THEN (IF prevSpace THEN "" ELSE " ") \o CollapseSpace(rest, TRUE)
             ELSE c \o CollapseSpace(rest, FALSE)

normalizeSpace(s) == TrimSpace(CollapseSpace(s, TRUE))

cleanText(s) == normalizeSpace(s)

\* goquery document text: the markup between < and > is dropped
RECURSIVE StripTags(_, _)
StripTags(s, inTag) ==
    IF Len(s) = 0 THEN ""
    ELSE LET c == SubSeq(s, 1, 1)
             rest == SubSeq(s, 2, Len(s))
         IN  IF inTag
             THEN (IF c = ">" THEN StripTags(rest, FALSE) ELSE StripTags(rest, TRUE))
             ELSE IF c = "<" THEN StripTags(rest, TRUE)
             ELSE c \o StripTags(rest, FALSE)

HTMLToText(html) == cleanText(StripTags(html, FALSE))

RECURSIVE JoinStrings(_, _)
JoinStrings(parts, sep) ==
    IF Len(parts) = 0 THEN ""
    ELSE IF Len(parts) = 1 THEN parts[1]
    ELSE parts[1] \o sep \o JoinStrings(Tail(parts), sep)

ContainsAny(s, hints) == \E h \in hints : Contains(s, h)

-----------------------------------------------------------------------------
(* Dates as text *)

Digit(n) ==
    CASE n = 0 -> "0" [] n = 1 -> "1" [] n = 2 -> "2" [] n = 3 -> "3"
      [] n = 4 -> "4" [] n = 5 -> "5" [] n = 6 -> "6" [] n = 7 -> "7"
      [] n = 8 -> "8" [] n = 9 -> "9"

\* the layout "2006-01-02" of instant t
DateOnly(t) == "2026-02-0" \o Digit(t)

\* t.Format(time.RFC3339)
FormatRFC3339(t) == DateOnly(t) \o "T00:00:00Z"

parseDeadlineCandidate(raw) ==
    LET s == TrimSpace(raw)
        hits == {t \in 0..9 : s \in {FormatRFC3339(t), DateOnly(t),
                                     DateOnly(t) \o " 00:00:00",
                                     DateOnly(t) \o "T00:00:00"}}
    IN  IF s = "" \/ hits = {} THEN [ok |-> FALSE, t |-> 0]
        ELSE [ok |-> TRUE, t |-> CHOOSE t \in hits : TRUE]


-----------------------------------------------------------------------------
(* The status engine: internal/ingest/status_engine.go *)

resultsKeywords ==
    {"resultados finales", "ganadores", "final results", "winners announced",
     "awards announced", "awarded to", "awardees selected",
     "convocatoria cerrada", "cierre de postulaciones", "results published",
     "results available", "ranking final"}

rollingHints ==
    {"rolling", "rolling basis", "open continuously", "ongoing call",
     "open until filled", "no deadline", "ventanilla abierta",
     "convocatoria permanente", "sin fecha límite", "abierta permanentemente"}

closedHints == {"closed", "cerrad", "finaliz", "cancel", "funded", "expired",
                "no longer accepting"}
archivedHints == {"archived", "historic", "results", "winners", "awardees",
                  "ganadores", "resultados"}
upcomingHints == {"forthcoming", "upcoming", "coming soon", "próxim", "anticipated"}
openHints == {"open", "posted", "active", "abierta", "vigente", "rolling"}

mapSourceStatusRaw(raw0) ==
    LET raw == ToLower(TrimSpace(raw0))
    IN  IF raw = "" THEN ""
        ELSE IF ContainsAny(raw, closedHints) THEN "closed"
        ELSE IF ContainsAny(raw, archivedHints) THEN "archived"
        ELSE IF ContainsAny(raw, upcomingHints) THEN "upcoming"
        ELSE IF ContainsAny(raw, openHints) THEN "open"
        ELSE ""

\* the map lookup opp.SourceEvidenceJSON["rolling_evidence"].(bool)
EvidenceSaysRolling(json) ==
    "rolling_evidence" \in DOMAIN json /\ json["rolling_evidence"] = TRUE

detectRollingEvidence(o) ==
    \/ o.RollingEvidence
    \/ ContainsAny(ToLower(JoinStrings(<<o.SourceStatusRaw, o.OppStatus, o.Title,
                                         o.Summary, HTMLToText(o.Description)>>,
                                       " \n ")),
                   rollingHints)
    \/ EvidenceSaysRolling(o.SourceEvidenceJSON)

\* detectResultsPage without the posted/active/open/forecasted guard
detectResultsPage_NoActiveGuard(o) ==
    LET text == ToLower(JoinStrings(<<o.Title, o.Summary, HTMLToText(o.Description),
                                      o.SourceStatusRaw>>, " \n "))
    IN  ContainsAny(text, resultsKeywords)

detectResultsPage(o) ==
    LET text == ToLower(JoinStrings(<<o.Title, o.Summary, HTMLToText(o.Description),
                                      o.SourceStatusRaw>>, " \n "))
        srcLower == ToLower(o.OppStatus)
    IN  IF srcLower \in {"posted", "active", "open", "forecasted"} THEN FALSE
        ELSE IF ContainsAny(text, resultsKeywords) THEN TRUE
        ELSE IF Contains(text, "proinnovate")
                /\ (Contains(text, "resultados finales") \/ Contains(text, "ganadores"))
             THEN TRUE
        ELSE FALSE

isStartLike(label) ==
    \/ Contains(label, "inicio") \/ Contains(label, "apertura")
    \/ Contains(label, "start") \/ Contains(label, "opening")

isCloseLike(label) ==
    \/ Contains(label, "cierre") \/ Contains(label, "deadline")
    \/ Contains(label, "closes") \/ Contains(label, "submission")
    \/ (Contains(label, "postul") /\ ~isStartLike(label))

\* the instants of the raw strings that parse
ParsedDeadlines(deadlines) ==
    {parseDeadlineCandidate(deadlines[i]).t :
        i \in {j \in DOMAIN deadlines : parseDeadlineCandidate(deadlines[j]).ok}}

ParsedEvidence(evidence) ==
    {parseDeadlineCandidate(evidence[i].ParsedDateISO).t :
        i \in {j \in DOMAIN evidence : parseDeadlineCandidate(evidence[j].ParsedDateISO).ok}}

\* the evidence dates that feed labeledCloseBest
LabeledCloseDates(evidence, t) ==
    {parseDeadlineCandidate(evidence[i].ParsedDateISO).t :
        i \in {j \in DOMAIN evidence :
                 LET p == parseDeadlineCandidate(evidence[j].ParsedDateISO)
                     label == ToLower(evidence[j].Label \o " " \o evidence[j].Snippet)
                 IN  p.ok /\ isCloseLike(label) /\ ~isStartLike(label) /\ p.t > t}}

\* pickNextDeadline accepting a candidate that is not before now
pickNextDeadline_NotBefore(o, t) ==
    LET labeled == LabeledCloseDates(o.DeadlineEvidence, t)
        candidates == ParsedDeadlines(o.Deadlines) \cup ParsedEvidence(o.DeadlineEvidence)
                      \cup (IF IsSet(o.NextDeadlineAt) THEN {Val(o.NextDeadlineAt)} ELSE {})
                      \cup (IF IsSet(o.DeadlineAt) THEN {Val(o.DeadlineAt)} ELSE {})
        future == {c \in candidates : c >= t}
    IN  IF labeled # {} THEN Ptr(SetMin(labeled))
        ELSE IF future # {} THEN Ptr(SetMin(future))
        ELSE IF IsSet(o.NextDeadlineAt) THEN o.NextDeadlineAt
        ELSE Nil

\* pickNextDeadline without the preference for close-labelled evidence
pickNextDeadline_EarliestOverall(o, t) ==
    LET candidates == ParsedDeadlines(o.Deadlines) \cup ParsedEvidence(o.DeadlineEvidence)
                      \cup (IF IsSet(o.NextDeadlineAt) THEN {Val(o.NextDeadlineAt)} ELSE {})
                      \cup (IF IsSet(o.DeadlineAt) THEN {Val(o.DeadlineAt)} ELSE {})
        future == {c \in candidates : c > t}
    IN  IF future # {} THEN Ptr(SetMin(future))
        ELSE IF IsSet(o.NextDeadlineAt) THEN o.NextDeadlineAt
        ELSE Nil

pickNextDeadline(o, t) ==
    LET labeled == LabeledCloseDates(o.DeadlineEvidence, t)
        candidates == ParsedDeadlines(o.Deadlines) \cup ParsedEvidence(o.DeadlineEvidence)
                      \cup (IF IsSet(o.NextDeadlineAt) THEN {Val(o.NextDeadlineAt)} ELSE {})
                      \cup (IF IsSet(o.DeadlineAt) THEN {Val(o.DeadlineAt)} ELSE {})
        future == {c \in candidates : c > t}
    IN  IF labeled # {} THEN Ptr(SetMin(labeled))
        ELSE IF future # {} THEN Ptr(SetMin(future))
        ELSE IF IsSet(o.NextDeadlineAt) THEN o.NextDeadlineAt
        ELSE Nil

hasAnyDeadlineEvidence(o) ==
    \/ Len(o.DeadlineEvidence) > 0 \/ Len(o.Deadlines) > 0
    \/ IsSet(o.DeadlineAt) \/ IsSet(o.NextDeadlineAt)

hasFutureDeadlineEvidence(o, t) ==
    \/ AfterNow(pickNextDeadline(o, t), t)
    \/ AfterNow(o.CloseAt, t)

StatusDecision(status, reason, confidence, nextDeadline, isResults) ==
    [NormalizedStatus |-> status, StatusReason |-> reason,
     StatusConfidence |-> confidence, NextDeadlineAt |-> nextDeadline,
     IsResultsPage |-> isResults]

\* sourceClosedDecision that overlooks a future close_at
sourceClosedDecision_IgnoresCloseAt(o, t, nextDeadline, effectiveRolling) ==
    IF effectiveRolling \/ AfterNow(nextDeadline, t)
    THEN StatusDecision("needs_review", "inconsistent_dates", 35, nextDeadline, FALSE)
    ELSE StatusDecision("closed", "source_closed", 92, nextDeadline, FALSE)

\* the branch taken when the source status maps to closed
sourceClosedDecision(o, t, nextDeadline, effectiveRolling) ==
    IF effectiveRolling \/ AfterNow(nextDeadline, t) \/ AfterNow(o.CloseAt, t)
    THEN StatusDecision("needs_review", "inconsistent_dates", 35, nextDeadline, FALSE)
    ELSE StatusDecision("closed", "source_closed", 92, nextDeadline, FALSE)

\* ComputeStatusDecision testing the future deadline before the open date
ComputeStatusDecision_DeadlineBeforeOpenDate(o, t) ==
    LET m0 == mapSourceStatusRaw(o.SourceStatusRaw)
        Rules(nextDeadline, isResults, hasRollingEvidence, mappedSource) ==
        LET effectiveRolling == hasRollingEvidence IN
        IF isResults \/ o.IsResultsPage
        THEN StatusDecision("closed", "results_page", 99, nextDeadline, TRUE)
        ELSE IF mappedSource = "archived"
        THEN StatusDecision("archived", "source_archived", 95, nextDeadline, FALSE)
        ELSE IF mappedSource = "closed"
        THEN sourceClosedDecision(o, t, nextDeadline, effectiveRolling)
        ELSE IF o.IsRolling /\ ~hasRollingEvidence
        THEN StatusDecision("needs_review", "rolling_without_evidence", 20, nextDeadline, FALSE)
        ELSE IF effectiveRolling
        THEN StatusDecision("open", "rolling_open", 96, nextDeadline, FALSE)
        ELSE IF AfterNow(nextDeadline, t)
        THEN StatusDecision("open", "future_deadline", 93, nextDeadline, FALSE)
        ELSE IF AfterNow(o.OpenAt, t)
        THEN StatusDecision("upcoming", "open_date_in_future", 90, nextDeadline, FALSE)
        ELSE IF AfterNow(o.CloseAt, t)
        THEN StatusDecision("open", "future_close_date", 90, nextDeadline, FALSE)
        ELSE IF IsSet(o.CloseAt) /\ ~AfterNow(o.CloseAt, t)
        THEN StatusDecision("closed", "close_date_passed", 94, nextDeadline, FALSE)
        ELSE IF IsSet(o.ExpirationAt) /\ ~AfterNow(o.ExpirationAt, t)
        THEN StatusDecision("closed", "expiration_passed", 90, nextDeadline, FALSE)
        ELSE IF IsSet(o.DeadlineAt) /\ ~AfterNow(o.DeadlineAt, t)
        THEN StatusDecision("closed", "deadline_passed", 95, nextDeadline, FALSE)
        ELSE IF hasAnyDeadlineEvidence(o) /\ ~hasFutureDeadlineEvidence(o, t)
        THEN StatusDecision("closed", "deadline_passed", 95, nextDeadline, FALSE)
        ELSE IF mappedSource = "upcoming"
        THEN StatusDecision("upcoming", "source_upcoming", 75, nextDeadline, FALSE)
        ELSE IF mappedSource = "open"
        THEN StatusDecision("needs_review", "source_open_without_time_evidence", 30, nextDeadline, FALSE)
        ELSE IF ~IsSet(nextDeadline) /\ ~effectiveRolling /\ ~AfterNow(o.CloseAt, t)
        THEN StatusDecision("needs_review", "missing_deadline", 25, Nil, FALSE)
        ELSE StatusDecision("needs_review", "inconsistent_dates", 40, nextDeadline, FALSE)
    IN  Rules(pickNextDeadline(o, t), detectResultsPage(o), detectRollingEvidence(o),
              IF m0 = "" THEN mapSourceStatusRaw(o.OppStatus) ELSE m0)

\* ComputeStatusDecision testing whether the open date is before now
ComputeStatusDecision_OpenDateBehind(o, t) ==
    LET m0 == mapSourceStatusRaw(o.SourceStatusRaw)
        Rules(nextDeadline, isResults, hasRollingEvidence, mappedSource) ==
        LET effectiveRolling == hasRollingEvidence IN
        IF isResults \/ o.IsResultsPage
        THEN StatusDecision("closed", "results_page", 99, nextDeadline, TRUE)
        ELSE IF mappedSource = "archived"
        THEN StatusDecision("archived", "source_archived", 95, nextDeadline, FALSE)
        ELSE IF mappedSource = "closed"
        THEN sourceClosedDecision(o, t, nextDeadline, effectiveRolling)
        ELSE IF IsSet(o.OpenAt) /\ Val(o.OpenAt) < t
        THEN StatusDecision("upcoming", "open_date_in_future", 90, nextDeadline, FALSE)
        ELSE IF o.IsRolling /\ ~hasRollingEvidence
        THEN StatusDecision("needs_review", "rolling_without_evidence", 20, nextDeadline, FALSE)
        ELSE IF effectiveRolling
        THEN StatusDecision("open", "rolling_open", 96, nextDeadline, FALSE)
        ELSE IF AfterNow(nextDeadline, t)
        THEN StatusDecision("open", "future_deadline", 93, nextDeadline, FALSE)
        ELSE IF AfterNow(o.CloseAt, t)
        THEN StatusDecision("open", "future_close_date", 90, nextDeadline, FALSE)
        ELSE IF IsSet(o.CloseAt) /\ ~AfterNow(o.CloseAt, t)
        THEN StatusDecision("closed", "close_date_passed", 94, nextDeadline, FALSE)
        ELSE IF IsSet(o.ExpirationAt) /\ ~AfterNow(o.ExpirationAt, t)
        THEN StatusDecision("closed", "expiration_passed", 90, nextDeadline, FALSE)
        ELSE IF IsSet(o.DeadlineAt) /\ ~AfterNow(o.DeadlineAt, t)
        THEN StatusDecision("closed", "deadline_passed", 95, nextDeadline, FALSE)
        ELSE IF hasAnyDeadlineEvidence(o) /\ ~hasFutureDeadlineEvidence(o, t)
        THEN StatusDecision("closed", "deadline_passed", 95, nextDeadline, FALSE)
        ELSE IF mappedSource = "upcoming"
        THEN StatusDecision("upcoming", "source_upcoming", 75, nextDeadline, FALSE)
        ELSE IF mappedSource = "open"
        THEN StatusDecision("needs_review", "source_open_without_time_evidence", 30, nextDeadline, FALSE)
        ELSE IF ~IsSet(nextDeadline) /\ ~effectiveRolling /\ ~AfterNow(o.CloseAt, t)
        THEN StatusDecision("needs_review", "missing_deadline", 25, Nil, FALSE)
        ELSE StatusDecision("needs_review", "inconsistent_dates", 40, nextDeadline, FALSE)
    IN  Rules(pickNextDeadline(o, t), detectResultsPage(o), detectRollingEvidence(o),
              IF m0 = "" THEN mapSourceStatusRaw(o.OppStatus) ELSE m0)

ComputeStatusDecision(o, t) ==
    LET m0 == mapSourceStatusRaw(o.SourceStatusRaw)
        Rules(nextDeadline, isResults, hasRollingEvidence, mappedSource) ==
        LET effectiveRolling == hasRollingEvidence IN
        IF isResults \/ o.IsResultsPage
        THEN StatusDecision("closed", "results_page", 99, nextDeadline, TRUE)
        ELSE IF mappedSource = "archived"
        THEN StatusDecision("archived", "source_archived", 95, nextDeadline, FALSE)
        ELSE IF mappedSource = "closed"
        THEN sourceClosedDecision(o, t, nextDeadline, effectiveRolling)
        ELSE IF AfterNow(o.OpenAt, t)
        THEN StatusDecision("upcoming", "open_date_in_future", 90, nextDeadline, FALSE)
        ELSE IF o.IsRolling /\ ~hasRollingEvidence
        THEN StatusDecision("needs_review", "rolling_without_evidence", 20, nextDeadline, FALSE)
        ELSE IF effectiveRolling
        THEN StatusDecision("open", "rolling_open", 96, nextDeadline, FALSE)
        ELSE IF AfterNow(nextDeadline, t)
        THEN StatusDecision("open", "future_deadline", 93, nextDeadline, FALSE)
        ELSE IF AfterNow(o.CloseAt, t)
        THEN StatusDecision("open", "future_close_date", 90, nextDeadline, FALSE)
        ELSE IF IsSet(o.CloseAt) /\ ~AfterNow(o.CloseAt, t)
        THEN StatusDecision("closed", "close_date_passed", 94, nextDeadline, FALSE)
        ELSE IF IsSet(o.ExpirationAt) /\ ~AfterNow(o.ExpirationAt, t)
        THEN StatusDecision("closed", "expiration_passed", 90, nextDeadline, FALSE)
        ELSE IF IsSet(o.DeadlineAt) /\ ~AfterNow(o.DeadlineAt, t)
        THEN StatusDecision("closed", "deadline_passed", 95, nextDeadline, FALSE)
        ELSE IF hasAnyDeadlineEvidence(o) /\ ~hasFutureDeadlineEvidence(o, t)
        THEN StatusDecision("closed", "deadline_passed", 95, nextDeadline, FALSE)
        ELSE IF mappedSource = "upcoming"
        THEN StatusDecision("upcoming", "source_upcoming", 75, nextDeadline, FALSE)
        ELSE IF mappedSource = "open"
        THEN StatusDecision("needs_review", "source_open_without_time_evidence", 30, nextDeadline, FALSE)
        ELSE IF ~IsSet(nextDeadline) /\ ~effectiveRolling /\ ~AfterNow(o.CloseAt, t)
        THEN StatusDecision("needs_review", "missing_deadline", 25, Nil, FALSE)
        ELSE StatusDecision("needs_review", "inconsistent_dates", 40, nextDeadline, FALSE)
    IN  Rules(pickNextDeadline(o, t), detectResultsPage(o), detectRollingEvidence(o),
              IF m0 = "" THEN mapSourceStatusRaw(o.OppStatus) ELSE m0)

-----------------------------------------------------------------------------
(* Opportunity values *)

NoEvidenceJSON == <<>>

\* the zero value Opportunity{}
ZeroOpp ==
    [Title |-> "", Summary |-> "", Description |-> "", ExternalURL |-> "",
     SourceDomain |-> "", SourceID |-> "",
     DeadlineAt |-> Nil, OpenDate |-> Nil,
     SourceStatusRaw |-> "", NormalizedStatus |-> "", StatusReason |-> "",
     StatusConfidence |-> 0, NextDeadlineAt |-> Nil, ExpirationAt |-> Nil,
     CloseAt |-> Nil, OpenAt |-> Nil,
     Deadlines |-> <<>>, DeadlineEvidence |-> <<>>,
     IsResultsPage |-> FALSE, RollingEvidence |-> FALSE,
     SourceEvidenceJSON |-> NoEvidenceJSON,
     IsRolling |-> FALSE, OppStatus |-> "",
     Region |-> "", FunderType |-> "", Country |-> "", AgencyName |-> ""]

Evidence(iso, label, snippet) ==
    [Source |-> "html", URL |-> "", Snippet |-> snippet, ParsedDateISO |-> iso,
     Label |-> label, Confidence |-> 80]

NoDecision == StatusDecision("", "", 0, Nil, FALSE)

Times == 1..MaxTime
MaybeTimes == {Nil} \cup {Ptr(t) : t \in Times}

-----------------------------------------------------------------------------
(* Status-engine harness: the engine applied to bounded opportunities *)

\* title, summary, description
EngineTexts ==
    {<<"Grant call", "", "">>,
     <<"Final Results 2025", "", "">>,
     <<"Grant call", "Winners announced", "">>,
     <<"Grant call", "", "<p>Applications on a rolling   basis</p>">>}

EngineURLs == {"https://example.org/c", "https://example.org/ganadores"}

EngineSourceStatus == {"", " Closed ", "archived", "forthcoming", "open",
                       "Convocatoria cerrada"}

EngineOppStatus == {"", "posted", "closed", "Forecasted"}

EngineDeadlines ==
    {<<>>, <<DateOnly(1)>>, <<"18 de febrero", " " \o FormatRFC3339(MaxTime)>>}

EngineEvidence ==
    {<<>>,
     <<Evidence(FormatRFC3339(2), "inicio de postulaciones", "Inicio de postulaciones"),
       Evidence(FormatRFC3339(MaxTime), "cierre de postulaciones", "Cierre")>>,
     <<Evidence(DateOnly(1), "deadline", "Submission deadline")>>,
     <<Evidence(DateOnly(2), "", "fecha")>>}

\* text and source-status detection
EngineOppsText ==
    {[ZeroOpp EXCEPT !.Title = tx[1], !.Summary = tx[2], !.Description = tx[3],
                     !.ExternalURL = u, !.SourceStatusRaw = ss, !.OppStatus = os,
                     !.IsResultsPage = rp, !.DeadlineAt = d, !.IsRolling = ir] :
        tx \in EngineTexts, u \in EngineURLs, ss \in EngineSourceStatus,
        os \in EngineOppStatus, rp \in BOOLEAN, d \in {Nil, Ptr(1), Ptr(MaxTime)},
        ir \in BOOLEAN}

\* where a record's rolling evidence comes from: nowhere, its flag, its evidence JSON
EngineRollingSources ==
    {<<FALSE, NoEvidenceJSON>>, <<TRUE, NoEvidenceJSON>>, <<FALSE, [rolling_evidence |-> TRUE]>>}

\* structured dates and rolling flags
EngineOppsDates ==
    {[ZeroOpp EXCEPT !.Title = "Grant call",
                     !.SourceStatusRaw = ss, !.OpenAt = oa, !.CloseAt = ca,
                     !.ExpirationAt = ea, !.DeadlineAt = d, !.NextDeadlineAt = nd,
                     !.IsRolling = ir, !.RollingEvidence = rs[1],
                     !.SourceEvidenceJSON = rs[2]] :
        ss \in {"", " Closed ", "open"},
        oa \in {Nil, Ptr(MaxTime)}, ca \in {Nil, Ptr(1), Ptr(MaxTime)},
        ea \in {Nil, Ptr(1)}, d \in MaybeTimes, nd \in MaybeTimes,
        ir \in BOOLEAN, rs \in EngineRollingSources}

\* deadline candidates and labelled evidence
EngineOppsDeadlines ==
    {[ZeroOpp EXCEPT !.Title = "Grant call",
                     !.SourceStatusRaw = ss, !.Deadlines = dl, !.DeadlineEvidence = ev,
                     !.DeadlineAt = d, !.NextDeadlineAt = nd, !.CloseAt = ca] :
        ss \in {"", " Closed ", "open"}, dl \in EngineDeadlines, ev \in EngineEvidence,
        d \in MaybeTimes, nd \in MaybeTimes, ca \in {Nil, Ptr(1)}}

EngineOpps == EngineOppsText \cup EngineOppsDates \cup EngineOppsDeadlines

\* the bound of the admin server: requests made
MaxRequests == 2

Requests == 1..MaxRequests

\* sync.Mutex: the zero value is unlocked
Unlocked == <<>>

\* a request that has not been sent; batch_size is read by the handler only,
\* and is blank again once the handler has returned
NoRequest == [pc |-> "idle", batch_size |-> "", code |-> 0, job_id |-> "", cancelled |-> FALSE]

\* NewServer: no job slot, the mutex free
InitServer ==
    /\ runningJob = 0
    /\ jobs = <<>>
    /\ jobMu = Unlocked
    /\ requests = [r \in Requests |-> NoRequest]

NoRows == <<>>

NoCalls == <<>>

InitCalls ==
    /\ calls = NoCalls
    /\ startRows = NoRows

\* a fetcher that has not been called
NoFetch ==
    [pc |-> "idle", url |-> "", attempt |-> 0, tries |-> 0, scheme |-> "", host |-> "",
     via |-> 0, ips |-> {}, peer |-> <<>>,
     last |-> [kind |-> "", status |-> 0], result |-> "", err |-> "",
     ctx |-> "live", endedAt |-> "", triesThen |-> 0]

InitFetch == fetch = NoFetch

\* IngestionStats
NoStats == [TotalFound |-> 0, TotalSaved |-> 0, Errors |-> 0]

\* no row of ingest_runs
NoRun ==
    [status |-> "", items_found |-> 0, items_saved |-> 0, errors |-> 0, completed_at |-> Nil]

\* IngestSource at rest. ctx is the caller's context, execErr the error of the
\* deferred UPDATE; source is the result set of the search API, asked the
\* startRecordNum of each request, passed the positions in the result set of
\* the records handed to SaveOpportunity
NoIngest ==
    [pc |-> "idle", runID |-> "", stats |-> NoStats, offset |-> 0, err |-> "", run |-> NoRun,
     ctx |-> "live", execErr |-> "", source |-> <<>>, asked |-> <<>>, passed |-> {}]

InitIngest == ingest = NoIngest

\* ListParams and AggregationParams, at their zero values
NoParams ==
    [Status |-> "", Source |-> "", Region |-> <<>>, FunderType |-> <<>>, Country |-> <<>>,
     AgencyName |-> <<>>, DeadlineDays |-> 0, IsRolling |-> <<>>, Limit |-> 0, Offset |-> 0]

\* no query has been answered
NoAnswer ==
    [kind |-> "none", params |-> NoParams, at |-> 0, Total |-> 0, Opportunities |-> <<>>,
     Regions |-> {}, FunderTypes |-> {}, Agencies |-> {}, Countries |-> {}]

InitQueries == queried = NoAnswer

\* a database no migration has run on
NoMigrations ==
    [pc |-> "idle", todo |-> <<>>, schema_migrations |-> {}, executed |-> <<>>, runs |-> 0,
     listed |-> {}, err |-> ""]

InitMigrate == migrate = NoMigrations

\* no URL canonicalized yet
NoCanon ==
    [pc |-> "idle", raw |-> "", once |-> "", twice |-> ""]

InitCanon == canon = NoCanon

\* no crawl started
NoCrawl ==
    [pc |-> "idle", MaxPages |-> 0, Next |-> "", maxPages |-> 0, currentURL |-> "",
     visitedURLs |-> {}, pageCount |-> 0, nextPageURL |-> "", fetched |-> <<>>, err |-> ""]

InitCrawl == crawl = NoCrawl

InitRest ==
    InitServer /\ InitCalls /\ InitFetch /\ InitIngest /\ InitQueries /\ InitMigrate /\ InitCanon /\ InitCrawl
NoOp ==
    [kind |-> "none", ok |-> TRUE, source_domain |-> "", source_id |-> "",
     opp_status |-> "", deadline_at |-> Nil, confidence |-> 0, updated |-> 0,
     answers |-> <<>>, runs |-> 0, inserted |-> FALSE]
NoWrites == <<>>
Unpicked == <<0, 0>>

InitEngine ==
    /\ rows = NoRows
    /\ lastOp = NoOp
    /\ maxWritten = NoWrites
    /\ now \in 1..MaxNow
    /\ opp \in EngineOpps
    /\ decision = NoDecision
    /\ picked = Unpicked
    /\ InitRest

\* next := pickNextDeadline(opp, now)
Pick ==
    /\ picked = Unpicked
    /\ picked' = pickNextDeadline(opp, now)
    /\ UNCHANGED <<rows, now, lastOp, maxWritten, opp, decision, restVars>>

\* decision := ComputeStatusDecision(opp, now)
Decide ==
    /\ picked # Unpicked
    /\ decision = NoDecision
    /\ decision' = ComputeStatusDecision(opp, now)
    /\ UNCHANGED <<rows, now, lastOp, maxWritten, opp, picked, restVars>>

NextEngine == Pick \/ Decide

SpecEngine == InitEngine /\ [][NextEngine]_vars

Decided == decision # NoDecision

-----------------------------------------------------------------------------
(* The opportunities table and SaveOpportunity: internal/ingest/pipeline.go *)

\* nilIfEmpty: an empty string is sent as NULL
nilIfEmpty(s) == IF s = "" THEN Nil ELSE Ptr(s)

\* SQL COALESCE(a, b); a NULL json column reads as the empty list or map
COALESCE(a, b) == IF IsSet(a) THEN a ELSE b

\* SQL COALESCE(NULLIF(a, ''), b) on a nullable text value
CoalesceNonEmpty(a, b) == IF IsSet(a) /\ Val(a) # "" THEN a ELSE b

\* COALESCE(col, '') when a nullable text column is scanned into a string
TextOf(p) == IF IsSet(p) THEN Val(p) ELSE ""

TruncateText(text, maxLen) ==
    IF Len(text) <= maxLen THEN text
    ELSE IF maxLen > 3 THEN SubSeq(text, 1, maxLen - 3) \o "..."
    ELSE SubSeq(text, 1, maxLen)

\* bluemonday's UGC policy keeps paragraph markup and plain text, which is all
\* the descriptions of this model are made of
sanitizeHTML(s) == s

RECURSIVE MergeFoldFrom(_, _, _)
MergeFoldFrom(dst, items, i) ==
    IF i > Len(items) THEN dst
    ELSE LET v == TrimSpace(items[i])
             seen == {ToLower(TrimSpace(dst[j])) : j \in DOMAIN dst} \ {""}
         IN  IF v = "" \/ ToLower(v) \in seen
             THEN MergeFoldFrom(dst, items, i + 1)
             ELSE MergeFoldFrom(Append(dst, v), items, i + 1)

mergeUniqueFold(dst, items) == MergeFoldFrom(dst, items, 1)

\* first loop of mergeDeadlineEvidence: the evidence already held
RECURSIVE MergeExistingEvidence(_, _, _, _)
MergeExistingEvidence(out, existing, i, fallbackURL) ==
    IF i > Len(existing) THEN out
    ELSE LET ev == existing[i]
             iso == TrimSpace(ev.ParsedDateISO)
             seen == {TrimSpace(out[j].ParsedDateISO) : j \in DOMAIN out}
             filled == [ev EXCEPT !.Source = IF @ = "" THEN "html" ELSE @,
                                  !.URL = IF @ = "" THEN fallbackURL ELSE @,
                                  !.Confidence = IF @ = 0 THEN 70 ELSE @]
         IN  IF iso = "" \/ iso \in seen
             THEN MergeExistingEvidence(out, existing, i + 1, fallbackURL)
             ELSE MergeExistingEvidence(Append(out, filled), existing, i + 1, fallbackURL)

\* second loop of mergeDeadlineEvidence: the legacy date strings
RECURSIVE MergeLegacyDates(_, _, _, _)
MergeLegacyDates(out, legacyDates, i, fallbackURL) ==
    IF i > Len(legacyDates) THEN out
    ELSE LET p == parseDeadlineCandidate(legacyDates[i])
             iso == FormatRFC3339(p.t)
             seen == {TrimSpace(out[j].ParsedDateISO) : j \in DOMAIN out}
         IN  IF ~p.ok \/ iso \in seen
             THEN MergeLegacyDates(out, legacyDates, i + 1, fallbackURL)
             ELSE MergeLegacyDates(
                      Append(out, [Source |-> "legacy", URL |-> fallbackURL,
                                   Snippet |-> legacyDates[i], ParsedDateISO |-> iso,
                                   Label |-> "legacy_deadline", Confidence |-> 50]),
                      legacyDates, i + 1, fallbackURL)

mergeDeadlineEvidence(existing, legacyDates, fallbackURL) ==
    MergeLegacyDates(MergeExistingEvidence(<<>>, existing, 1, fallbackURL),
                     legacyDates, 1, fallbackURL)

\* the jsonb sent for the deadlines column; the empty list stands for NULL
buildDeadlinesJSON(deadlines, evidence, fallbackURL) ==
    mergeDeadlineEvidence(evidence, deadlines, fallbackURL)

RECURSIVE NonEmptyISOs(_)
NonEmptyISOs(evidence) ==
    IF evidence = <<>> THEN <<>>
    ELSE IF Head(evidence).ParsedDateISO # ""
         THEN <<Head(evidence).ParsedDateISO>> \o NonEmptyISOs(Tail(evidence))
         ELSE NonEmptyISOs(Tail(evidence))

\* the deadlines column decoded into date strings and evidence
decodeDeadlinesPayload(raw) ==
    [Deadlines |-> mergeUniqueFold(<<>>, NonEmptyISOs(raw)), DeadlineEvidence |-> raw]

\* a JSON object is a function from keys to values; the empty one stands for NULL
JSONSet(m, k, v) == [x \in (DOMAIN m) \cup {k} |-> IF x = k THEN v ELSE m[x]]

JSONMerge(m, extra) ==
    [x \in (DOMAIN m) \cup (DOMAIN extra) |-> IF x \in DOMAIN extra THEN extra[x] ELSE m[x]]

buildEvidenceJSON(evidence) == evidence

shouldEnrichEvidence(o) ==
    ~o.RollingEvidence /\ ~IsSet(o.NextDeadlineAt) /\ ~IsSet(o.CloseAt) /\ ~IsSet(o.DeadlineAt)

apiDomains == {"grants.gov", "api.grants.gov", "ec.europa.eu", "europa.eu", "nsf.gov", "nih.gov"}

isAPIFirstSource(domain) == ContainsAny(ToLower(TrimSpace(domain)), apiDomains)

\* what the LLM extraction returned; ok is false when there is no client or
\* the call failed (deadline_iso is empty in every extraction drawn here)
NoExtraction ==
    [ok |-> FALSE, SourceStatusRaw |-> "", IsResultsPage |-> FALSE,
     DeadlineCandidates |-> <<>>, OpenISO |-> "", OpenDateISO |-> "", CloseISO |-> "",
     ExpirationISO |-> "", IsRolling |-> FALSE, OppStatus |-> "", Summary |-> ""]

\* what FetchOpportunityRaw and ExtractCandidates returned; ok is false on error
NoCandidates ==
    [ok |-> FALSE, SourceStatusRaw |-> "", IsResultsPage |-> FALSE,
     DeadlineCandidates |-> <<>>, DeadlineEvidence |-> <<>>, Evidence |-> <<>>,
     PDFsParsed |-> 0, DeadlinesAdded |-> 0, RollingEvidence |-> FALSE,
     StatusConfidence |-> 0]

NotParsed == [ok |-> FALSE, t |-> 0]

\* SaveOpportunity, normalisation and sanitising of the text fields
SaveSanitize(o) ==
    LET title == HTMLToText(cleanText(o.Title))
        summary == HTMLToText(cleanText(o.Summary))
    IN  [o EXCEPT !.Title = title,
                  !.Summary = IF TrimSpace(summary) = "" /\ TrimSpace(o.Description) # ""
                              THEN TruncateText(HTMLToText(o.Description), 280)
                              ELSE summary,
                  !.Description = sanitizeHTML(o.Description)]

\* the rows GetOpportunityBySourceID finds
RowsOfSource(rs, domain, id) ==
    {i \in DOMAIN rs : rs[i].source_domain = domain /\ rs[i].source_id = id}

\* SaveOpportunity, adoption of the stored deadline and rolling flag
AdoptExisting(o, rs) ==
    LET needs == ~IsSet(o.DeadlineAt) /\ ~o.IsRolling
        hit == RowsOfSource(rs, o.SourceDomain, o.SourceID)
    IN  IF ~needs \/ hit = {} THEN [opp |-> o, needsExtraction |-> needs]
        ELSE LET existing == rs[CHOOSE i \in hit : TRUE]
             IN  [opp |-> [o EXCEPT !.DeadlineAt = existing.deadline_at,
                                    !.IsRolling = existing.is_rolling],
                  needsExtraction |->
                      ~(\/ IsSet(existing.deadline_at)
                        \/ existing.is_rolling
                        \/ TextOf(existing.opp_status) \in {"closed", "archived"})]

\* SaveOpportunity, merge of the extracted data
MergeExtraction(o, x) ==
    LET openAt == IF x.OpenISO # "" THEN parseDeadlineCandidate(x.OpenISO)
                  ELSE IF x.OpenDateISO # "" THEN parseDeadlineCandidate(x.OpenDateISO)
                  ELSE NotParsed
        closeAt == IF x.CloseISO # "" THEN parseDeadlineCandidate(x.CloseISO) ELSE NotParsed
        expiration == IF x.ExpirationISO # "" THEN parseDeadlineCandidate(x.ExpirationISO)
                      ELSE NotParsed
        statusTaken == x.OppStatus \in {"posted", "closed", "archived", "funded"}
        raw == IF x.SourceStatusRaw # "" THEN x.SourceStatusRaw ELSE o.SourceStatusRaw
    IN  [o EXCEPT !.SourceStatusRaw = IF statusTaken /\ raw = "" THEN x.OppStatus ELSE raw,
                  !.IsResultsPage = @ \/ x.IsResultsPage,
                  !.Deadlines = IF Len(x.DeadlineCandidates) > 0
                                THEN mergeUniqueFold(@, x.DeadlineCandidates) ELSE @,
                  !.OpenAt = IF openAt.ok THEN Ptr(openAt.t) ELSE @,
                  !.CloseAt = IF closeAt.ok THEN Ptr(closeAt.t) ELSE @,
                  !.ExpirationAt = IF expiration.ok THEN Ptr(expiration.t) ELSE @,
                  !.IsRolling = @ \/ x.IsRolling,
                  !.OppStatus = IF statusTaken THEN x.OppStatus ELSE @,
                  !.Summary = IF Len(@) < 40 /\ x.Summary # "" THEN x.Summary ELSE @]

\* applyEvidenceEnrichment, promotion of labelled evidence dates to open_at and close_at
RECURSIVE PromoteDates(_, _, _, _)
PromoteDates(openAt, closeAt, evidence, i) ==
    IF i > Len(evidence) THEN [OpenAt |-> openAt, CloseAt |-> closeAt]
    ELSE LET parsed == parseDeadlineCandidate(evidence[i].ParsedDateISO)
             label == ToLower(evidence[i].Label \o " " \o evidence[i].Snippet)
             opens == ContainsAny(label, {"inicio", "opening", "open"})
             closes == ContainsAny(label, {"cierre", "deadline", "closes", "fecha máxima"})
         IN  IF ~parsed.ok THEN PromoteDates(openAt, closeAt, evidence, i + 1)
             ELSE PromoteDates(
                      IF opens /\ ~IsSet(openAt) THEN Ptr(parsed.t) ELSE openAt,
                      IF closes /\ (~IsSet(closeAt) \/ parsed.t < Val(closeAt))
                      THEN Ptr(parsed.t) ELSE closeAt,
                      evidence, i + 1)

\* applyEvidenceEnrichment once the adapter returned candidates c
applyEvidenceEnrichment(o, c) ==
    LET Noted(o2, json) ==
            [o2 EXCEPT !.SourceEvidenceJSON = IF c.RollingEvidence
                                              THEN JSONSet(json, "rolling_evidence", TRUE)
                                              ELSE json,
                       !.IsRolling = @ \/ c.RollingEvidence,
                       !.RollingEvidence = @ \/ c.RollingEvidence,
                       !.StatusConfidence = Max2(@, c.StatusConfidence)]
        Dated(o2) ==
            Noted(o2, JSONSet(JSONSet(JSONMerge(o2.SourceEvidenceJSON, c.Evidence),
                                      "pdfs_parsed", c.PDFsParsed),
                              "deadlines_added", c.DeadlinesAdded))
        Promoted(o1, promoted, first) ==
            [o1 EXCEPT
               !.Deadlines = mergeUniqueFold(@, c.DeadlineCandidates),
               !.DeadlineEvidence =
                   mergeDeadlineEvidence(@, <<>>, o1.ExternalURL) \o c.DeadlineEvidence,
               !.OpenAt = promoted.OpenAt,
               !.CloseAt = promoted.CloseAt,
               !.DeadlineAt = IF ~IsSet(@) /\ first.ok THEN Ptr(first.t) ELSE @]
        Raw(o1) ==
            Dated(IF Len(c.DeadlineCandidates) = 0 THEN o1
                  ELSE Promoted(o1,
                                PromoteDates(o1.OpenAt, o1.CloseAt, c.DeadlineEvidence, 1),
                                parseDeadlineCandidate(c.DeadlineCandidates[1])))
    IN  Raw([o EXCEPT !.SourceStatusRaw = IF c.SourceStatusRaw # "" THEN c.SourceStatusRaw
                                          ELSE @,
                      !.IsResultsPage = @ \/ c.IsResultsPage])

\* SaveOpportunity, rolling evidence, status decision and defaults before the insert
SaveStamp(o, t) ==
    LET Stamped(rolling, d, openAt, api) ==
            [o EXCEPT !.RollingEvidence = rolling,
                      !.NormalizedStatus = d.NormalizedStatus,
                      !.StatusReason = d.StatusReason,
                      !.StatusConfidence = IF api /\ d.StatusConfidence < 95 THEN 95
                                           ELSE d.StatusConfidence,
                      !.NextDeadlineAt = d.NextDeadlineAt,
                      !.IsResultsPage = d.IsResultsPage,
                      !.SourceStatusRaw = IF @ = "" THEN o.OppStatus ELSE @,
                      !.OpenAt = openAt,
                      !.SourceEvidenceJSON = IF api THEN JSONSet(@, "authority", "api")
                                             ELSE @,
                      !.IsRolling = IF ~rolling THEN FALSE ELSE @]
        WithDecision(rolling, d, openAt) ==
            Stamped(rolling, d, openAt,
                    /\ isAPIFirstSource(o.SourceDomain)
                    /\ \/ IsSet(openAt) \/ IsSet(o.CloseAt) \/ IsSet(o.ExpirationAt)
                       \/ Len(o.Deadlines) > 0)
        WithRolling(rolling) ==
            WithDecision(rolling, ComputeStatusDecision([o EXCEPT !.RollingEvidence = rolling], t),
                    IF ~IsSet(o.OpenAt) /\ IsSet(o.OpenDate) THEN o.OpenDate ELSE o.OpenAt)
    IN  WithRolling(detectRollingEvidence(o))

\* the VALUES list of the INSERT
InsertValues(o) ==
    [title |-> o.Title, summary |-> o.Summary, description_html |-> o.Description,
     external_url |-> o.ExternalURL, source_domain |-> nilIfEmpty(o.SourceDomain),
     source_id |-> o.SourceID, deadline_at |-> o.DeadlineAt, open_date |-> o.OpenDate,
     is_rolling |-> o.IsRolling, opp_status |-> nilIfEmpty(o.OppStatus),
     source_status_raw |-> nilIfEmpty(o.SourceStatusRaw),
     normalized_status |-> o.NormalizedStatus,
     status_reason |-> nilIfEmpty(o.StatusReason),
     next_deadline_at |-> o.NextDeadlineAt, expiration_at |-> o.ExpirationAt,
     close_at |-> o.CloseAt, open_at |-> o.OpenAt,
     deadlines |-> buildDeadlinesJSON(o.Deadlines, o.DeadlineEvidence, o.ExternalURL),
     is_results_page |-> o.IsResultsPage,
     source_evidence_json |-> buildEvidenceJSON(o.SourceEvidenceJSON),
     status_confidence |-> o.StatusConfidence, rolling_evidence |-> o.RollingEvidence,
     last_enriched_at |-> Nil,
     region |-> nilIfEmpty(o.Region), funder_type |-> nilIfEmpty(o.FunderType),
     country |-> nilIfEmpty(o.Country), agency_name |-> nilIfEmpty(o.AgencyName)]

TerminalOppStatus == {"closed", "archived", "funded"}

\* migration 008: trigger_update_status_on_deadline, BEFORE INSERT OR UPDATE
update_opportunity_status_on_deadline(new, t) ==
    IF /\ IsSet(new.deadline_at) /\ Val(new.deadline_at) < t
       /\ IsSet(new.opp_status) /\ Val(new.opp_status) \notin TerminalOppStatus
    THEN [new EXCEPT !.opp_status = Ptr("closed")]
    ELSE new

\* DO UPDATE SET opp_status = CASE ... END
UpsertOppStatus(old, excluded) ==
    IF /\ IsSet(old) /\ Val(old) \in TerminalOppStatus
       /\ TextOf(COALESCE(excluded, Ptr("posted"))) \in {"posted", ""}
    THEN old
    ELSE CoalesceNonEmpty(excluded, old)

\* DO UPDATE SET status_confidence = excluded
UpsertConfidence_LastWriterWins(old, excluded) == excluded

\* status_confidence = opportunities.status_confidence: the stored value is kept
UpsertConfidence_KeepsStored(old, excluded) == old

\* DO UPDATE SET status_confidence = GREATEST(excluded, stored)
UpsertConfidence(old, excluded) == Max2(excluded, old)

\* the DO UPDATE SET list applied to the stored row
DoUpdate(old, excluded) ==
    [old EXCEPT
       !.title = excluded.title,
       !.summary = excluded.summary,
       !.description_html = IF excluded.description_html # "" THEN excluded.description_html
                            ELSE @,
       !.deadline_at = COALESCE(excluded.deadline_at, @),
       !.open_date = COALESCE(excluded.open_date, @),
       !.opp_status = UpsertOppStatus(@, excluded.opp_status),
       !.is_rolling = @ \/ excluded.is_rolling,
       !.source_status_raw = CoalesceNonEmpty(excluded.source_status_raw, @),
       !.normalized_status = excluded.normalized_status,
       !.status_reason = excluded.status_reason,
       !.next_deadline_at = excluded.next_deadline_at,
       !.expiration_at = COALESCE(excluded.expiration_at, @),
       !.close_at = COALESCE(excluded.close_at, @),
       !.open_at = COALESCE(excluded.open_at, @),
       !.deadlines = COALESCE(excluded.deadlines, @),
       !.is_results_page = excluded.is_results_page,
       !.source_evidence_json = COALESCE(excluded.source_evidence_json, @),
       !.status_confidence = UpsertConfidence(@, excluded.status_confidence),
       !.rolling_evidence = excluded.rolling_evidence]

\* the rows that conflict on (source_domain, source_id)
ConflictRows(rs, excluded) ==
    {i \in DOMAIN rs : /\ Ptr(rs[i].source_domain) = excluded.source_domain
                       /\ rs[i].source_id = excluded.source_id}

\* INSERT ... ON CONFLICT (source_domain, source_id) DO UPDATE, with its triggers;
\* values has a non-NULL source_domain
Upsert(rs, values, t) ==
    LET excluded == update_opportunity_status_on_deadline(values, t)
        hit == ConflictRows(rs, excluded)
    IN  IF hit = {}
        THEN Append(rs, [excluded EXCEPT !.source_domain = Val(@)])
        ELSE [i \in DOMAIN rs |->
                 IF i \in hit
                 THEN update_opportunity_status_on_deadline(DoUpdate(rs[i], excluded), t)
                 ELSE rs[i]]

\* the source_id test that ignores surrounding white space only when there is none
MissingSourceID_NoTrim(o) == o.SourceID = ""

MissingSourceID(o) == TrimSpace(o.SourceID) = ""

\* the opportunity as it stands when the source_id is tested
SavePrepare(o, rs, x) ==
    LET Adopted(adopted) ==
            IF adopted.needsExtraction /\ x.ok THEN MergeExtraction(adopted.opp, x)
            ELSE adopted.opp
    IN  Adopted(AdoptExisting(SaveSanitize(o), rs))

\* the opportunity as it is sent to the INSERT
SaveFinal(o, t, c) ==
    SaveStamp(IF shouldEnrichEvidence(o) /\ o.ExternalURL # "" /\ c.ok
              THEN applyEvidenceEnrichment(o, c) ELSE o, t)

KeyOf(domain, id) == <<domain, id>>

SaveOp(o, ok, final) ==
    [kind |-> "save", ok |-> ok, source_domain |-> o.SourceDomain,
     source_id |-> o.SourceID, opp_status |-> final.OppStatus,
     deadline_at |-> final.DeadlineAt, confidence |-> final.StatusConfidence,
     updated |-> 0, answers |-> <<>>, runs |-> 0, inserted |-> FALSE]

\* the highest confidence any successful write of a key carried
NoteWrite(written, key, confidence) ==
    [k \in (DOMAIN written) \cup {key} |->
        IF k = key
        THEN IF k \in DOMAIN written THEN Max2(written[k], confidence) ELSE confidence
        ELSE written[k]]

\* what one call of SaveOpportunity does to the table: the error of a missing
\* source_id, the failure of the NOT NULL source_domain (migration 009), or the upsert
SaveWrite(o, prepared, rs, t, c) ==
    LET Failed(final) == [rows |-> rs, op |-> SaveOp(o, FALSE, final)]
        Inserted(final, values) ==
            IF ~IsSet(values.source_domain) THEN Failed(final)
            ELSE [rows |-> Upsert(rs, values, t), op |-> SaveOp(o, TRUE, final)]
        Stamped(final) == Inserted(final, InsertValues(final))
    IN  IF MissingSourceID(prepared) THEN Failed(prepared)
        ELSE Stamped(SaveFinal(prepared, t, c))

\* one call of SaveOpportunity with nothing running beside it: the stored row
\* is read from the table the INSERT then writes
SaveOutcome(o, rs, t, x, c) == SaveWrite(o, SavePrepare(o, rs, x), rs, t, c)

\* SaveOpportunity(ctx, o) with the answers x and c of the LLM and of the adapter
SaveOpportunity(o, x, c) ==
    \E out \in {SaveOutcome(o, rows, now, x, c)} :
        /\ rows' = out.rows
        /\ lastOp' = [out.op EXCEPT !.inserted = Len(out.rows) > Len(rows)]
        /\ maxWritten' = IF out.op.ok
                         THEN NoteWrite(maxWritten, KeyOf(o.SourceDomain, o.SourceID),
                                        out.op.confidence)
                         ELSE maxWritten
        /\ UNCHANGED <<now, opp, decision, picked, restVars>>

\* the clock advances
Tick ==
    /\ now < MaxNow
    /\ now' = now + 1
    /\ lastOp' = [NoOp EXCEPT !.kind = "tick"]
    /\ UNCHANGED <<rows, maxWritten, opp, decision, picked, restVars>>

-----------------------------------------------------------------------------
(* RecomputeStatuses and EnrichOpportunities: internal/ingest/pipeline.go *)

\* the opportunity RecomputeStatuses scans from a row; the stored
\* is_results_page is overridden with false
RecomputeScan(r) ==
    LET payload == decodeDeadlinesPayload(r.deadlines)
    IN  [ZeroOpp EXCEPT
           !.Title = r.title, !.Summary = r.summary, !.Description = r.description_html,
           !.ExternalURL = r.external_url, !.IsRolling = r.is_rolling,
           !.RollingEvidence = r.rolling_evidence, !.OppStatus = TextOf(r.opp_status),
           !.SourceStatusRaw = TextOf(r.source_status_raw),
           !.DeadlineAt = r.deadline_at, !.NextDeadlineAt = r.next_deadline_at,
           !.ExpirationAt = r.expiration_at, !.CloseAt = r.close_at, !.OpenAt = r.open_at,
           !.Deadlines = payload.Deadlines, !.DeadlineEvidence = payload.DeadlineEvidence,
           !.IsResultsPage = FALSE, !.SourceEvidenceJSON = r.source_evidence_json]

\* what ai.AnalyzeStatus can answer; "" stands for no client or a failed call
LLMAnswers == {"", "posted", "closed", "forthcoming"}

\* the LLM fallback of RecomputeStatuses
ClassifyFallback(d, answer) ==
    IF d.NormalizedStatus # "needs_review" THEN d
    ELSE CASE answer = "posted" ->
                [d EXCEPT !.NormalizedStatus = "open",
                          !.StatusReason = "llm_classified_open", !.StatusConfidence = 60]
           [] answer = "closed" ->
                [d EXCEPT !.NormalizedStatus = "closed",
                          !.StatusReason = "llm_classified_closed", !.StatusConfidence = 60]
           [] answer = "forthcoming" ->
                [d EXCEPT !.NormalizedStatus = "upcoming",
                          !.StatusReason = "llm_classified_upcoming", !.StatusConfidence = 60]
           [] OTHER -> d

\* the row after the UPDATE of RecomputeStatuses; the UPDATE touches the row
\* only when one of the seven columns is distinct from what it sets
RecomputeRow(r, t, answer) ==
    LET Updated(o, d) ==
            [r EXCEPT !.normalized_status = d.NormalizedStatus,
                      !.status_reason = nilIfEmpty(d.StatusReason),
                      !.next_deadline_at = d.NextDeadlineAt,
                      !.is_results_page = d.IsResultsPage,
                      !.status_confidence = d.StatusConfidence,
                      !.rolling_evidence = detectRollingEvidence(o),
                      !.close_at = IF /\ IsSet(o.CloseAt) /\ ~AfterNow(o.CloseAt, t)
                                      /\ AfterNow(d.NextDeadlineAt, t)
                                   THEN Nil ELSE o.CloseAt]
        Scanned(o) == Updated(o, ClassifyFallback(ComputeStatusDecision(o, t), answer))
    IN  Scanned(RecomputeScan(r))

\* the rows for which the rule engine cannot decide
ReviewRows(rs, t) ==
    {i \in DOMAIN rs :
        ComputeStatusDecision(RecomputeScan(rs[i]), t).NormalizedStatus = "needs_review"}

\* the UPDATE of RecomputeStatuses without its IS DISTINCT FROM conditions
RowsAffected_Ungated(old, new) == 1

\* tag.RowsAffected() of the gated UPDATE of one row
RowsAffected(old, new) == IF old # new THEN 1 ELSE 0

RECURSIVE SumSeq(_)
SumSeq(s) == IF s = <<>> THEN 0 ELSE Head(s) + SumSeq(Tail(s))

\* RecomputeStatuses(ctx, batchSize): one sweep over every row; answers[i] is
\* what the LLM says of row i when it is asked
RecomputeStatuses(answers) ==
    \E swept \in {[i \in DOMAIN rows |-> RecomputeRow(rows[i], now, answers[i])]} :
        /\ rows' = swept
        /\ lastOp' = [NoOp EXCEPT
                        !.kind = "recompute",
                        !.updated = SumSeq([i \in DOMAIN rows |->
                                              RowsAffected(rows[i], swept[i])]),
                        !.answers = answers,
                        !.runs = IF lastOp.kind = "recompute" THEN 2 ELSE 1]
        /\ UNCHANGED <<now, maxWritten, opp, decision, picked, restVars>>

\* domainTTLIntervalLiteral, in days
DomainTTLDays(domain) ==
    LET d == ToLower(TrimSpace(domain))
    IN  IF ContainsAny(d, {"gob.pe", "proinnovate", "prociencia"}) THEN 2
        ELSE IF ContainsAny(d, {"ukri", "neh"}) THEN 3
        ELSE 7

\* the WHERE clause of the two selection queries of EnrichOpportunities
EnrichSelects(r, domain, onlyMissingDeadlines, confidenceThreshold, t) ==
    /\ domain = "" \/ r.source_domain = domain
    /\ \/ /\ r.normalized_status \in {"open", "needs_review"}
          /\ onlyMissingDeadlines => (~IsSet(r.next_deadline_at) /\ ~r.rolling_evidence)
       \/ TextOf(r.status_reason) \in {"rolling_without_evidence", "missing_deadline",
                                       "inconsistent_dates"}
       \/ r.status_confidence < confidenceThreshold
       \/ ~IsSet(r.last_enriched_at)
       \/ Val(r.last_enriched_at) < t - DomainTTLDays(domain)

\* the opportunity EnrichOpportunities scans from a selected row
EnrichScan(r) ==
    LET payload == decodeDeadlinesPayload(r.deadlines)
    IN  [ZeroOpp EXCEPT
           !.Title = r.title, !.Summary = r.summary, !.Description = r.description_html,
           !.ExternalURL = r.external_url, !.SourceDomain = r.source_domain,
           !.SourceID = r.source_id, !.IsRolling = r.is_rolling,
           !.RollingEvidence = r.rolling_evidence, !.OppStatus = TextOf(r.opp_status),
           !.SourceStatusRaw = TextOf(r.source_status_raw),
           !.DeadlineAt = r.deadline_at, !.NextDeadlineAt = r.next_deadline_at,
           !.CloseAt = r.close_at, !.ExpirationAt = r.expiration_at,
           !.Deadlines = payload.Deadlines,
           !.DeadlineEvidence = payload.DeadlineEvidence,
           !.SourceEvidenceJSON = r.source_evidence_json,
           !.StatusConfidence = r.status_confidence]

\* the row after the UPDATE of EnrichOpportunities, c being what the adapter returned
EnrichRow(r, t, c) ==
    LET Updated(o, d) ==
            [r EXCEPT
               !.source_status_raw = IF o.SourceStatusRaw # "" THEN Ptr(o.SourceStatusRaw)
                                     ELSE @,
               !.deadlines = COALESCE(buildDeadlinesJSON(o.Deadlines, o.DeadlineEvidence,
                                                         o.ExternalURL), @),
               !.next_deadline_at = d.NextDeadlineAt,
               !.close_at = COALESCE(o.CloseAt, @),
               !.expiration_at = COALESCE(o.ExpirationAt, @),
               !.is_rolling = o.IsRolling,
               !.rolling_evidence = o.RollingEvidence,
               !.is_results_page = d.IsResultsPage,
               !.source_evidence_json = COALESCE(buildEvidenceJSON(o.SourceEvidenceJSON), @),
               !.normalized_status = d.NormalizedStatus,
               !.status_reason = nilIfEmpty(d.StatusReason),
               !.status_confidence = Max2(d.StatusConfidence, o.StatusConfidence),
               !.last_enriched_at = Ptr(t)]
        Flagged(o) == Updated(o, ComputeStatusDecision(o, t))
        Detected(enriched, rolling) ==
            Flagged([enriched EXCEPT !.RollingEvidence = rolling,
                                     !.IsRolling = IF ~rolling THEN FALSE ELSE @])
        Enriched(enriched) == Detected(enriched, detectRollingEvidence(enriched))
        Scanned(scanned) ==
            Enriched(IF c.ok THEN applyEvidenceEnrichment(scanned, c) ELSE scanned)
    IN  Scanned(EnrichScan(r))

DefaultConfidenceThreshold == 60

\* EnrichOpportunities(ctx, domain, onlyMissingDeadlines, ...) with a batch that
\* holds every selected row; found[i] is what the adapter returns for row i
EnrichOpportunities(domain, onlyMissingDeadlines, found) ==
    \E selected \in {{i \in DOMAIN rows :
                        EnrichSelects(rows[i], domain, onlyMissingDeadlines,
                                      DefaultConfidenceThreshold, now)}} :
        /\ rows' = [i \in DOMAIN rows |->
                      IF i \in selected THEN EnrichRow(rows[i], now, found[i]) ELSE rows[i]]
        /\ lastOp' = [NoOp EXCEPT !.kind = "enrich", !.updated = Cardinality(selected)]
        /\ UNCHANGED <<now, maxWritten, opp, decision, picked, restVars>>

-----------------------------------------------------------------------------
(* Upsert harness: SaveOpportunity on bounded opportunities as the clock advances *)

\* a crawled listing of a source that is not API-first
ListingOpp ==
    [ZeroOpp EXCEPT !.Title = "Grant call",
                    !.ExternalURL = "https://example.org/c",
                    !.SourceDomain = "example.org", !.SourceID = "A-1"]

\* the LLM reads the listing as closed
ClosedExtraction ==
    [NoExtraction EXCEPT !.ok = TRUE, !.OppStatus = "closed", !.SourceStatusRaw = "Closed"]

\* the adapter finds a rolling hint on the page
RollingCandidates ==
    [NoCandidates EXCEPT !.ok = TRUE, !.RollingEvidence = TRUE, !.StatusConfidence = 40,
                         !.Evidence = [authority |-> "inference", rolling_evidence |-> TRUE]]

\* the adapter finds a labelled closing date on the page
DeadlineCandidates ==
    [NoCandidates EXCEPT
       !.ok = TRUE, !.StatusConfidence = 80, !.DeadlinesAdded = 1,
       !.DeadlineCandidates = <<FormatRFC3339(MaxTime)>>,
       !.DeadlineEvidence = <<Evidence(FormatRFC3339(MaxTime), "cierre de postulaciones",
                                       "cierre")>>,
       !.Evidence = [authority |-> "official_page_html", rolling_evidence |-> FALSE]]

\* writes of one key with each lifecycle status, and with a past or future deadline
UpsertOppsStatus ==
    {[ListingOpp EXCEPT !.OppStatus = os] :
        os \in {"", "posted", "closed", "archived", "funded"}}
    \cup {[ListingOpp EXCEPT !.OppStatus = os, !.DeadlineAt = d] :
            os \in {"", "posted"}, d \in {Ptr(1), Ptr(MaxTime)}}

\* a rolling call, and a listing of an API-first source under the same source_id
UpsertOppsOther ==
    {[ListingOpp EXCEPT !.Title = "  A <b>rolling</b>  call ",
                        !.IsRolling = TRUE, !.OppStatus = "posted"],
     [ListingOpp EXCEPT !.SourceDomain = "grants.gov", !.OppStatus = "posted",
                        !.CloseAt = Ptr(MaxTime)]}

\* writes the store must refuse
UpsertOppsRefused ==
    {[ListingOpp EXCEPT !.SourceID = ""],
     [ListingOpp EXCEPT !.SourceID = "  ", !.OppStatus = "posted"],
     [ListingOpp EXCEPT !.SourceDomain = ""]}

UpsertInputs ==
    {<<o, NoExtraction, NoCandidates>> :
        o \in UpsertOppsStatus \cup UpsertOppsOther \cup UpsertOppsRefused}
    \cup {<<[ListingOpp EXCEPT !.OppStatus = "posted"], ClosedExtraction, NoCandidates>>,
          <<[ListingOpp EXCEPT !.OppStatus = "posted"], NoExtraction, RollingCandidates>>}

InitStore ==
    /\ rows = NoRows
    /\ lastOp = NoOp
    /\ maxWritten = NoWrites
    /\ now = 1
    /\ opp = ZeroOpp
    /\ decision = NoDecision
    /\ picked = Unpicked
    /\ InitRest

SaveUpsert == \E in \in UpsertInputs : SaveOpportunity(in[1], in[2], in[3])

NextUpsert == SaveUpsert \/ Tick

SpecUpsert == InitStore /\ [][NextUpsert]_vars

-----------------------------------------------------------------------------
(* Store harness: saves, enrichment sweeps and recompute sweeps interleaved *)

\* a listing without dates, one the source calls closed although its deadline
\* is ahead, a rolling call, and a listing whose close_at is past while its
\* deadline is still ahead
StoreOpps ==
    {[ListingOpp EXCEPT !.OppStatus = "posted"],
     [ListingOpp EXCEPT !.OppStatus = "closed", !.DeadlineAt = Ptr(2)],
     [ListingOpp EXCEPT !.Title = "A rolling call", !.IsRolling = TRUE,
                        !.OppStatus = "posted"],
     [ListingOpp EXCEPT !.OppStatus = "posted", !.CloseAt = Ptr(1),
                        !.DeadlineAt = Ptr(MaxTime)]}

SaveStore == \E o \in StoreOpps : SaveOpportunity(o, NoExtraction, NoCandidates)

\* the LLM is asked about the rows under review only
RecomputeStore ==
    \E review \in {ReviewRows(rows, now)} :
        \E asked \in [review -> LLMAnswers] :
            RecomputeStatuses([i \in DOMAIN rows |-> IF i \in review THEN asked[i] ELSE ""])

\* the adapter is asked about the selected rows only
EnrichStore ==
    \E onlyMissingDeadlines \in BOOLEAN :
        \E selected \in {{i \in DOMAIN rows :
                            EnrichSelects(rows[i], "", onlyMissingDeadlines,
                                          DefaultConfidenceThreshold, now)}} :
            \E fetched \in [selected -> {NoCandidates, RollingCandidates,
                                           DeadlineCandidates}] :
                EnrichOpportunities("", onlyMissingDeadlines,
                                    [i \in DOMAIN rows |->
                                        IF i \in selected THEN fetched[i] ELSE NoCandidates])

NextStore == SaveStore \/ EnrichStore \/ RecomputeStore \/ Tick

SpecStore == InitStore /\ [][NextStore]_vars

-----------------------------------------------------------------------------
(* Sweep harness: listings of every kind saved, then swept by RecomputeStatuses *)

\* listings a crawl or the LLM parser hands to SaveOpportunity: flagged
\* rolling with and without a hint in the text, opening later, with a
\* deadline ahead or behind, called closed by the source, announcing results
SweepOpps ==
    {[ListingOpp EXCEPT !.OppStatus = "posted"],
     [ListingOpp EXCEPT !.IsRolling = TRUE],
     [ListingOpp EXCEPT !.Title = "A rolling call", !.IsRolling = TRUE],
     [ListingOpp EXCEPT !.OpenDate = Ptr(MaxTime)],
     [ListingOpp EXCEPT !.DeadlineAt = Ptr(MaxTime)],
     [ListingOpp EXCEPT !.DeadlineAt = Ptr(1), !.OppStatus = "posted"],
     [ListingOpp EXCEPT !.OppStatus = "closed", !.DeadlineAt = Ptr(2)],
     [ListingOpp EXCEPT !.Title = "Final results"],
     [ListingOpp EXCEPT !.OppStatus = "posted", !.CloseAt = Ptr(1),
                        !.DeadlineAt = Ptr(MaxTime)]}

SaveSweep == \E o \in SweepOpps : SaveOpportunity(o, NoExtraction, NoCandidates)

NextSweep == SaveSweep \/ RecomputeStore \/ Tick

SpecSweep == InitStore /\ [][NextSweep]_vars

-----------------------------------------------------------------------------
(* The background recompute job: handleRecomputeStatus, internal/api/server.go *)

DigitOf ==
    "0" :> 0 @@ "1" :> 1 @@ "2" :> 2 @@ "3" :> 3 @@ "4" :> 4
    @@ "5" :> 5 @@ "6" :> 6 @@ "7" :> 7 @@ "8" :> 8 @@ "9" :> 9

RECURSIVE ParseDigits(_, _)
ParseDigits(s, acc) ==
    IF Len(s) = 0 THEN [ok |-> TRUE, n |-> acc]
    ELSE IF SubSeq(s, 1, 1) \in DOMAIN DigitOf
    THEN ParseDigits(SubSeq(s, 2, Len(s)), 10 * acc + DigitOf[SubSeq(s, 1, 1)])
    ELSE [ok |-> FALSE, n |-> 0]

\* strconv.Atoi: an optional sign, then decimal digits
Atoi(s) ==
    LET signed == Len(s) > 0 /\ SubSeq(s, 1, 1) \in {"+", "-"}
        digits == IF signed THEN SubSeq(s, 2, Len(s)) ELSE s
        parsed == ParseDigits(digits, 0)
    IN  IF Len(digits) = 0 \/ ~parsed.ok THEN [ok |-> FALSE, n |-> 0]
        ELSE IF signed /\ SubSeq(s, 1, 1) = "-" THEN [ok |-> TRUE, n |-> 0 - parsed.n]
        ELSE parsed

\* the batch_size query parameter, 500 unless it parses to 1..5000
batchSizeOf(raw0) ==
    LET raw == TrimSpace(raw0)
        parsed == Atoi(raw)
    IN  IF raw # "" /\ parsed.ok /\ parsed.n > 0 /\ parsed.n <= 5000 THEN parsed.n
        ELSE 500

\* jobMu.Lock() returns only while nobody holds the mutex
CanLock_NoMutex(mu) == TRUE

CanLock(mu) == mu = Unlocked

\* &backgroundJob{ID, Status: "running", ...} with the goroutine it is handed to:
\* pc is the goroutine's position, ctxDone whether jobCtx is done, lastID the
\* cursor of RecomputeStatuses (0 is ""), batch the ids rows.Next has yet to yield;
\* the locals of RecomputeStatuses are zero again once it has returned, and
\* updated lives on in job.Result when it returned no error
NewJob(id, batchSize) ==
    [ID |-> id, Status |-> "running", Error |-> "", batchSize |-> batchSize,
     ctxDone |-> FALSE, pc |-> "query", lastID |-> 0, batch |-> <<>>, batchRows |-> 0,
     updated |-> 0]

\* a request is sent with a batch_size parameter
Arrive(r, raw) ==
    /\ requests[r].pc = "idle"
    /\ requests' = [requests EXCEPT ![r].pc = "lock", ![r].batch_size = raw]
    /\ UNCHANGED <<rows, beyondServer,
                   runningJob, jobs, jobMu>>

\* the client goes away while the handler runs: c.Request().Context() is
\* cancelled, as it is by net/http once the handler has returned
CancelRequest(r) ==
    /\ requests[r].pc \notin {"idle", "done"}
    /\ ~requests[r].cancelled
    /\ requests' = [requests EXCEPT ![r].cancelled = TRUE]
    /\ UNCHANGED <<rows, beyondServer,
                   runningJob, jobs, jobMu>>

\* s.jobMu.Lock()
LockSlot(r) ==
    /\ requests[r].pc = "lock"
    /\ CanLock(jobMu)
    /\ jobMu' = <<"request", r>>
    /\ requests' = [requests EXCEPT ![r].pc = "check"]
    /\ UNCHANGED <<rows, beyondServer, runningJob, jobs>>

\* if s.runningJob != nil && s.runningJob.Status == "running": unlock and 409;
\* the handler returns
CheckSlot(r) ==
    /\ requests[r].pc = "check"
    /\ IF runningJob # 0 /\ jobs[runningJob].Status = "running"
       THEN /\ jobMu' = Unlocked
            /\ requests' = [requests EXCEPT ![r].pc = "done", ![r].code = 409,
                                            ![r].job_id = jobs[runningJob].ID,
                                            ![r].batch_size = "", ![r].cancelled = TRUE]
       ELSE /\ jobMu' = jobMu
            /\ requests' = [requests EXCEPT ![r].pc = "start"]
    /\ UNCHANGED <<rows, beyondServer, runningJob, jobs>>

\* uuid.New().String()[:8]: the n-th id drawn, no id being drawn twice
NewJobID(n) == "job-" \o Digit(n)

\* the ids the first MaxRequests draws yield
JobIDs == {NewJobID(n) : n \in Requests}

\* the job is allocated and stored in the slot, the mutex released, the goroutine
\* started and 202 returned
StartJob(r, id) ==
    /\ requests[r].pc = "start"
    /\ id = NewJobID(Len(jobs) + 1)
    /\ jobs' = Append(jobs, NewJob(id, batchSizeOf(requests[r].batch_size)))
    /\ runningJob' = Len(jobs) + 1
    /\ jobMu' = Unlocked
    /\ requests' = [requests EXCEPT ![r].pc = "done", ![r].code = 202, ![r].job_id = id,
                                    ![r].batch_size = "", ![r].cancelled = TRUE]
    /\ UNCHANGED <<rows, beyondServer>>

\* the ids SELECT ... WHERE id > lastID ORDER BY id LIMIT batchSize returns
RECURSIVE BatchAfter(_, _, _)
BatchAfter(rs, lastID, limit) ==
    IF limit = 0 \/ lastID >= Len(rs) THEN <<>>
    ELSE <<lastID + 1>> \o BatchAfter(rs, lastID + 1, limit - 1)

\* jobCtx reaches its 30-minute deadline
JobCtxExpires_NoDeadline(j) == FALSE /\ UNCHANGED vars

JobCtxExpires(j) ==
    /\ j \in DOMAIN jobs
    /\ jobs[j].pc # "ended"
    /\ ~jobs[j].ctxDone
    /\ jobs' = [jobs EXCEPT ![j].ctxDone = TRUE]
    /\ UNCHANGED <<rows, beyondServer,
                   runningJob, jobMu, requests>>

\* RecomputeStatuses: p.DB.Query answers with the next batch
JobQuery(j) ==
    /\ j \in DOMAIN jobs
    /\ jobs[j].pc = "query"
    /\ ~jobs[j].ctxDone
    /\ jobs' = [jobs EXCEPT ![j].pc = "next", ![j].batchRows = 0,
                            ![j].batch = BatchAfter(rows, jobs[j].lastID,
                                                    jobs[j].batchSize)]
    /\ UNCHANGED <<rows, beyondServer,
                   runningJob, jobMu, requests>>

\* RecomputeStatuses: rows.Next yields a row, the engine decides, the LLM is asked
\* when the engine cannot, and the gated UPDATE is executed
JobRow(j, answer) ==
    /\ j \in DOMAIN jobs
    /\ jobs[j].pc = "next"
    /\ jobs[j].batch # <<>>
    /\ ~jobs[j].ctxDone
    /\ \E id \in {Head(jobs[j].batch)} :
         \E new \in {RecomputeRow(rows[id], now, answer)} :
            /\ rows' = [rows EXCEPT ![id] = new]
            /\ jobs' = [jobs EXCEPT ![j].batch = Tail(@), ![j].batchRows = @ + 1,
                                    ![j].lastID = id,
                                    ![j].updated = @ + RowsAffected(rows[id], new)]
    /\ UNCHANGED <<beyondServer,
                   runningJob, jobMu, requests>>

\* RecomputeStatuses: rows.Next returns false, at the end of the batch or because
\* jobCtx is done (rows.Err is not looked at); an empty batch ends the sweep
JobRowsEnd(j) ==
    /\ j \in DOMAIN jobs
    /\ jobs[j].pc = "next"
    /\ jobs[j].batch = <<>> \/ jobs[j].ctxDone
    /\ jobs' = [jobs EXCEPT ![j].batch = <<>>,
                            ![j].pc = IF jobs[j].batchRows = 0 THEN "backfill"
                                      ELSE "query",
                            ![j].lastID = IF jobs[j].batchRows = 0 THEN 0 ELSE @]
    /\ UNCHANGED <<rows, beyondServer,
                   runningJob, jobMu, requests>>

\* RecomputeStatuses: Query or Exec returns the error of a done jobCtx
JobCtxErr(j) ==
    /\ j \in DOMAIN jobs
    /\ jobs[j].ctxDone
    /\ \/ jobs[j].pc = "query"
       \/ jobs[j].pc = "next" /\ jobs[j].batch # <<>>
    /\ jobs' = [jobs EXCEPT ![j].pc = "failed", ![j].batch = <<>>, ![j].lastID = 0,
                            ![j].batchRows = 0, ![j].updated = 0,
                            ![j].Error = IF jobs[j].pc = "query"
                                         THEN "recompute status query failed"
                                         ELSE "recompute status update failed"]
    /\ UNCHANGED <<rows, beyondServer,
                   runningJob, jobMu, requests>>

\* RecomputeStatuses: the database fails the Query or the Exec
JobDBErr(j) ==
    /\ j \in DOMAIN jobs
    /\ ~jobs[j].ctxDone
    /\ \/ jobs[j].pc = "query"
       \/ jobs[j].pc = "next" /\ jobs[j].batch # <<>>
    /\ jobs' = [jobs EXCEPT ![j].pc = "failed", ![j].batch = <<>>, ![j].lastID = 0,
                            ![j].batchRows = 0, ![j].updated = 0,
                            ![j].Error = IF jobs[j].pc = "query"
                                         THEN "recompute status query failed"
                                         ELSE "recompute status update failed"]
    /\ UNCHANGED <<rows, beyondServer,
                   runningJob, jobMu, requests>>

\* BackfillCleanArrays(jobCtx) returns; its error is dropped (the arrays it
\* rewrites are not among the columns of rows)
JobBackfill(j) ==
    /\ j \in DOMAIN jobs
    /\ jobs[j].pc = "backfill"
    /\ jobs' = [jobs EXCEPT ![j].pc = "completed"]
    /\ UNCHANGED <<rows, beyondServer,
                   runningJob, jobMu, requests>>

\* the goroutine takes s.jobMu to publish the outcome
JobLock(j) ==
    /\ j \in DOMAIN jobs
    /\ jobs[j].pc \in {"failed", "completed"}
    /\ CanLock(jobMu)
    /\ jobMu' = <<"job", j>>
    /\ jobs' = [jobs EXCEPT ![j].pc = IF @ = "failed" THEN "set_failed"
                                      ELSE "set_completed"]
    /\ UNCHANGED <<rows, beyondServer,
                   runningJob, requests>>

\* job.Status is set, the mutex released, and the deferred jobCancel runs
JobFinish(j) ==
    /\ j \in DOMAIN jobs
    /\ jobs[j].pc \in {"set_failed", "set_completed"}
    /\ jobs' = [jobs EXCEPT ![j].Status = IF jobs[j].pc = "set_failed" THEN "failed"
                                          ELSE "completed",
                            ![j].pc = "ended", ![j].ctxDone = TRUE]
    /\ jobMu' = Unlocked
    /\ UNCHANGED <<rows, beyondServer,
                   runningJob, requests>>

-----------------------------------------------------------------------------
(* Server harness: concurrent recompute requests and the jobs they start *)

\* the table the jobs sweep: a listing the engine cannot decide, and a rolling call
JobsTable ==
    LET first == SaveOutcome([ListingOpp EXCEPT !.OppStatus = "posted"], NoRows, 1,
                             NoExtraction, NoCandidates).rows
    IN  SaveOutcome([ListingOpp EXCEPT !.SourceID = "A-2", !.Title = "A rolling call",
                                       !.IsRolling = TRUE, !.OppStatus = "posted"],
                    first, 1, NoExtraction, NoCandidates).rows

BatchSizeParams == {"", "1"}

InitJobs ==
    /\ rows = JobsTable
    /\ lastOp = NoOp
    /\ maxWritten = NoWrites
    /\ now = 1
    /\ opp = ZeroOpp
    /\ decision = NoDecision
    /\ picked = Unpicked
    /\ InitServer
    /\ InitCalls
    /\ InitFetch
    /\ InitIngest
    /\ InitQueries
    /\ InitMigrate
    /\ InitCanon
    /\ InitCrawl

RequestStep(r) ==
    \/ \E raw \in BatchSizeParams : Arrive(r, raw)
    \/ CancelRequest(r)
    \/ LockSlot(r)
    \/ CheckSlot(r)
    \/ \E id \in JobIDs : StartJob(r, id)

\* the LLM is asked about a row only when the engine cannot decide it
JobRowStep(j) ==
    \E answer \in {"", "closed"} :
        /\ answer # "" => (j \in DOMAIN jobs /\ jobs[j].batch # <<>>
                           /\ Head(jobs[j].batch) \in ReviewRows(rows, now))
        /\ JobRow(j, answer)

JobStep(j) ==
    \/ JobCtxExpires(j)
    \/ JobQuery(j)
    \/ JobRowStep(j)
    \/ JobRowsEnd(j)
    \/ JobCtxErr(j)
    \/ JobDBErr(j)
    \/ JobBackfill(j)
    \/ JobLock(j)
    \/ JobFinish(j)

NextJobs == (\E r \in Requests : RequestStep(r)) \/ (\E j \in Requests : JobStep(j))

\* a handler or goroutine that can take a step on its own goes on, taking the
\* mutex when it stays free included; the timer of jobCtx fires; a goroutine
\* whose context is done gets the error of its pending call.  No fairness is
\* asked of the database, of the LLM or of the clients.
FairJobs ==
    /\ \A r \in Requests :
          /\ WF_vars(LockSlot(r))
          /\ WF_vars(CheckSlot(r))
          /\ WF_vars(\E id \in JobIDs : StartJob(r, id))
    /\ \A j \in Requests :
          /\ WF_vars(JobCtxExpires(j))
          /\ WF_vars(JobCtxErr(j))
          /\ WF_vars(JobRowsEnd(j))
          /\ WF_vars(JobBackfill(j) /\ jobs[j].ctxDone)
          /\ WF_vars(JobLock(j))
          /\ WF_vars(JobFinish(j))

SpecJobs == InitJobs /\ [][NextJobs]_vars /\ FairJobs

-----------------------------------------------------------------------------
(* SaveOpportunity calls running side by side: internal/ingest/pipeline.go *)

Callers == {1, 2}

\* a call that has not yet looked the stored row up
NewCall(o, x) == [pc |-> "read", opp |-> o, x |-> x, prepared |-> o]

\* the call reads the stored row, adopts its deadline and rolling flag, and
\* merges the extraction
SaveReadExisting(c) ==
    /\ c \in DOMAIN calls
    /\ calls[c].pc = "read"
    /\ calls' = [calls EXCEPT ![c].pc = "insert",
                              ![c].prepared = SavePrepare(calls[c].opp, rows, calls[c].x)]
    /\ UNCHANGED <<rows, startRows, beyondCalls>>

\* the call stamps its decision and executes the INSERT ... ON CONFLICT
SaveInsert(c) ==
    /\ c \in DOMAIN calls
    /\ calls[c].pc = "insert"
    /\ \E out \in {SaveWrite(calls[c].opp, calls[c].prepared, rows, now, NoCandidates)} :
        /\ rows' = out.rows
        /\ lastOp' = [out.op EXCEPT !.inserted = Len(out.rows) > Len(rows)]
        /\ maxWritten' = IF out.op.ok
                         THEN NoteWrite(maxWritten,
                                        KeyOf(calls[c].opp.SourceDomain, calls[c].opp.SourceID),
                                        out.op.confidence)
                         ELSE maxWritten
    /\ calls' = [calls EXCEPT ![c].pc = "done"]
    /\ UNCHANGED <<now, opp, decision, picked, serverVars, startRows, fetch, ingest, queried,
                   migrate,
                   canon,
                   crawl>>

-----------------------------------------------------------------------------
(* Harness: two calls on the key (example.org, A-1) *)

\* what two crawls of one listing may carry
ConcurrentOpps ==
    {[ListingOpp EXCEPT !.OppStatus = os] : os \in {"", "posted", "closed"}}
    \cup {[ListingOpp EXCEPT !.OppStatus = "posted", !.DeadlineAt = d] :
            d \in {Ptr(1), Ptr(MaxTime)}}
    \cup {[ListingOpp EXCEPT !.IsRolling = TRUE, !.OppStatus = "posted"]}

\* the table before the calls: empty, or the listing stored with a future deadline
ConcurrentTables ==
    {NoRows,
     SaveOutcome([ListingOpp EXCEPT !.OppStatus = "posted", !.DeadlineAt = Ptr(MaxTime)],
                 NoRows, 1, NoExtraction, NoCandidates).rows}

InitConcurrent ==
    /\ rows \in ConcurrentTables
    /\ startRows = rows
    /\ calls \in [Callers -> {NewCall(o, x) : o \in ConcurrentOpps,
                                              x \in {NoExtraction, ClosedExtraction}}]
    /\ lastOp = NoOp
    /\ maxWritten = NoWrites
    /\ now = MaxNow
    /\ opp = ZeroOpp
    /\ decision = NoDecision
    /\ picked = Unpicked
    /\ InitServer
    /\ InitFetch
    /\ InitIngest
    /\ InitQueries
    /\ InitMigrate
    /\ InitCanon
    /\ InitCrawl

NextConcurrent == \E c \in Callers : SaveReadExisting(c) \/ SaveInsert(c)

SpecConcurrent == InitConcurrent /\ [][NextConcurrent]_vars

-----------------------------------------------------------------------------
(* The rate-limited fetcher: internal/ingest/parser_llm.go *)

\* a net.IP is its bytes: 4 of them, or 16
V4(a, b, c, d) == <<a, b, c, d>>

\* the 16-byte address with the two leading bytes and the last byte given
V6(b1, b2, last) == <<b1, b2, 0, 0, 0, 0, 0, 0, 0, 0, 0, 0, 0, 0, 0, last>>

\* the IPv4-mapped IPv6 form ::ffff:a.b.c.d
Mapped(ip4) == <<0, 0, 0, 0, 0, 0, 0, 0, 0, 0, 255, 255>> \o ip4

\* ip.To4(): the 4-byte form, or nil
To4(ip) ==
    IF Len(ip) = 4 THEN ip
    ELSE IF Len(ip) = 16 /\ SubSeq(ip, 1, 12) = Mapped(<<>>) THEN SubSeq(ip, 13, 16)
    ELSE <<>>

IsLoopback(ip) == IF To4(ip) # <<>> THEN To4(ip)[1] = 127 ELSE ip = V6(0, 0, 1)

IsUnspecified(ip) == To4(ip) = V4(0, 0, 0, 0) \/ ip = V6(0, 0, 0)

IsPrivate(ip) ==
    IF To4(ip) # <<>>
    THEN \/ To4(ip)[1] = 10
         \/ To4(ip)[1] = 172 /\ To4(ip)[2] \div 16 = 1
         \/ To4(ip)[1] = 192 /\ To4(ip)[2] = 168
    ELSE Len(ip) = 16 /\ ip[1] \div 2 = 126

IsMulticast(ip) ==
    IF To4(ip) # <<>> THEN To4(ip)[1] \div 16 = 14
    ELSE Len(ip) = 16 /\ ip[1] = 255

IsLinkLocalMulticast(ip) ==
    IF To4(ip) # <<>> THEN To4(ip)[1] = 224 /\ To4(ip)[2] = 0 /\ To4(ip)[3] = 0
    ELSE Len(ip) = 16 /\ ip[1] = 255 /\ ip[2] % 16 = 2

IsLinkLocalUnicast(ip) ==
    IF To4(ip) # <<>> THEN To4(ip)[1] = 169 /\ To4(ip)[2] = 254
    ELSE Len(ip) = 16 /\ ip[1] = 254 /\ ip[2] \div 64 = 2

\* a netip.Prefix: the address and the number of leading bits that count
Prefix(addr, bits) == [addr |-> addr, bits |-> bits]

RECURSIVE Pow2(_)
Pow2(n) == IF n = 0 THEN 1 ELSE 2 * Pow2(n - 1)

\* prefix.Contains(addr): same family, same leading bits
PrefixContains(prefix, addr) ==
    /\ Len(addr) = Len(prefix.addr)
    /\ \A i \in 1..Len(addr) :
          LET counted == IF prefix.bits >= 8 * i THEN 8
                         ELSE IF prefix.bits <= 8 * (i - 1) THEN 0
                         ELSE prefix.bits - 8 * (i - 1)
          IN  addr[i] \div Pow2(8 - counted) = prefix.addr[i] \div Pow2(8 - counted)

blockedPrefixes ==
    <<Prefix(V4(127, 0, 0, 0), 8), Prefix(V4(10, 0, 0, 0), 8), Prefix(V4(172, 16, 0, 0), 12),
      Prefix(V4(192, 168, 0, 0), 16), Prefix(V4(169, 254, 0, 0), 16),
      Prefix(V6(0, 0, 1), 128), Prefix(V6(252, 0, 0), 7), Prefix(V6(254, 128, 0), 10)>>

\* addr.Unmap()
Unmap(ip) == IF To4(ip) # <<>> THEN To4(ip) ELSE ip

isPrivateIP(ip) ==
    IF ip = <<>> THEN TRUE
    ELSE IF \/ IsLoopback(ip) \/ IsLinkLocalMulticast(ip) \/ IsLinkLocalUnicast(ip)
            \/ IsMulticast(ip) \/ IsPrivate(ip) \/ IsUnspecified(ip) THEN TRUE
    ELSE IF \E k \in DOMAIN blockedPrefixes : PrefixContains(blockedPrefixes[k], Unmap(ip))
    THEN TRUE
    ELSE IF To4(ip) # <<>>
    THEN \/ To4(ip)[1] = 10
         \/ To4(ip)[1] = 172 /\ To4(ip)[2] >= 16 /\ To4(ip)[2] <= 31
         \/ To4(ip)[1] = 192 /\ To4(ip)[2] = 168
         \/ To4(ip)[1] = 169 /\ To4(ip)[2] = 254
    ELSE FALSE

\* what net.LookupIP returns: an error, or addresses
Answer(ips) == [err |-> "", ips |-> ips]

LookupFailed(err) == [err |-> err, ips |-> {}]

\* strings.HasSuffix
HasSuffix(str, suffix) ==
    Len(str) >= Len(suffix) /\ SubSeq(str, Len(str) - Len(suffix) + 1, Len(str)) = suffix

\* the outcome of one client.Do
Timeout == [kind |-> "timeout", status |-> 0]

Failure == [kind |-> "error", status |-> 0]

Status(code) == [kind |-> "status", status |-> code]

\* every failure and every status is retried
shouldRetry_Always(outcome) == TRUE

shouldRetry(outcome) ==
    IF outcome.kind # "status" THEN outcome.kind = "timeout"
    ELSE outcome.status \in {429, 500, 502, 503, 504}

MaxRetries == 2     \* FetchConfig.MaxRetries of the domain

\* Fetch, the body of the retry loop after client.Do has returned
AfterDo(f, outcome) ==
    IF outcome.kind = "status" /\ outcome.status = 200
    THEN [f EXCEPT !.pc = "done", !.last = outcome, !.result = "document"]
    ELSE IF shouldRetry(outcome)
    THEN IF f.attempt + 1 <= MaxRetries
         THEN [f EXCEPT !.pc = "attempt", !.last = outcome, !.attempt = @ + 1]
         ELSE [f EXCEPT !.pc = "done", !.last = outcome, !.result = "error",
                        !.err = "max retries exceeded"]
    ELSE [f EXCEPT !.pc = "done", !.last = outcome, !.result = "error",
                   !.err = IF outcome.kind = "status" THEN "unexpected status code"
                           ELSE "failed to execute request"]

\* Fetch(ctx, rawURL) is called: domain, config, client; the call then waits on the
\* ticker of the domain
FetchBegin(host) ==
    /\ fetch.pc = "idle"
    /\ fetch' = [NoFetch EXCEPT !.pc = "limiter", !.url = host]
    /\ UNCHANGED beyondFetch

\* the caller's context is cancelled or its deadline passes while Fetch runs; endedAt and
\* triesThen record where Fetch was
ContextEnds(how) ==
    /\ fetch.pc \in {"limiter", "attempt", "dial", "respond"}
    /\ fetch.ctx = "live"
    /\ fetch' = [fetch EXCEPT
                    !.ctx = how,
                    !.endedAt = IF fetch.pc = "limiter" THEN "limiter"
                                ELSE IF fetch.pc = "attempt" /\ fetch.attempt > 0 THEN "backoff"
                                ELSE "request",
                    !.triesThen = fetch.tries]
    /\ UNCHANGED beyondFetch

\* <-limiter.C: the ticker of the domain ticks
FetchTick ==
    /\ fetch.pc = "limiter"
    /\ fetch' = [fetch EXCEPT !.pc = "attempt"]
    /\ UNCHANGED beyondFetch

\* the error of a client.Do whose context has ended: DeadlineExceeded is a timeout,
\* Canceled is not
CtxOutcome(ctx) == IF ctx = "deadline" THEN Timeout ELSE Failure

\* the select of the backoff takes <-ctx.Done(): Fetch returns ctx.Err()
FetchCtxDone ==
    /\ fetch.pc = "attempt"
    /\ fetch.attempt > 0
    /\ fetch.ctx # "live"
    /\ fetch' = [fetch EXCEPT !.pc = "done", !.result = "error", !.err = "context"]
    /\ UNCHANGED beyondFetch

\* the backoff, if any, has elapsed: the request is built and client.Do called, which
\* fails at once when the context has ended
FetchAttempt ==
    /\ fetch.pc = "attempt"
    /\ fetch.attempt = 0 \/ fetch.ctx = "live"
    /\ fetch' = IF fetch.ctx # "live"
                THEN AfterDo([fetch EXCEPT !.tries = @ + 1], CtxOutcome(fetch.ctx))
                ELSE [fetch EXCEPT !.pc = "dial", !.tries = @ + 1, !.scheme = "https",
                                   !.host = fetch.url, !.via = 0, !.ips = {}, !.peer = <<>>]
    /\ UNCHANGED beyondFetch

\* the context ends while client.Do is under way: Do returns the context's error
FetchCtxAbort ==
    /\ fetch.pc \in {"dial", "respond"}
    /\ fetch.ctx # "live"
    /\ fetch' = AfterDo(fetch, CtxOutcome(fetch.ctx))
    /\ UNCHANGED beyondFetch

\* safeDialContext: the lookup and its test, then the dialer's own lookup and
\* connection to one of the addresses it gets
safeDialContext(checked, dialed, peer, connected) ==
    /\ fetch.pc = "dial"
    /\ fetch.ctx = "live"
    /\ fetch' =
         IF checked.err # ""
         THEN AfterDo(fetch, IF checked.err = "timeout" THEN Timeout ELSE Failure)
         ELSE IF \E ip \in checked.ips : isPrivateIP(ip) THEN AfterDo(fetch, Failure)
         ELSE IF dialed.err # ""
         THEN AfterDo(fetch, IF dialed.err = "timeout" THEN Timeout ELSE Failure)
         ELSE IF peer \notin dialed.ips THEN AfterDo(fetch, Failure)
         ELSE IF connected # "connected"
         THEN AfterDo(fetch, IF connected = "timeout" THEN Timeout ELSE Failure)
         ELSE [fetch EXCEPT !.pc = "respond", !.ips = checked.ips, !.peer = peer]
    /\ UNCHANGED beyondFetch

MaxRedirects == 10

\* safeCheckRedirect(req, via): the error, or "" when the redirect may be followed
safeCheckRedirect(scheme, host, via, answer) ==
    IF via >= MaxRedirects THEN "stopped after 10 redirects"
    ELSE IF scheme # "http" /\ scheme # "https" THEN "redirect scheme blocked"
    ELSE IF host = "" THEN "redirect host missing"
    ELSE IF ToLower(host) = "localhost" \/ HasSuffix(ToLower(host), ".local")
    THEN "redirect to internal host blocked"
    ELSE IF answer.err # "" THEN answer.err
    ELSE IF answer.ips = {} THEN "redirect host resolved to no addresses"
    ELSE IF \E ip \in answer.ips : isPrivateIP(ip) THEN "redirect to private IP blocked"
    ELSE ""

\* the server answers with a status, or the read times out or fails
FetchRespond(outcome) ==
    /\ fetch.pc = "respond"
    /\ fetch.ctx = "live"
    /\ fetch' = AfterDo(fetch, outcome)
    /\ UNCHANGED beyondFetch

\* the server answers with a redirect: the client asks safeCheckRedirect and
\* follows it or gives the error back
FetchRedirect(scheme, host, answer) ==
    /\ fetch.pc = "respond"
    /\ fetch.ctx = "live"
    /\ \E refused \in {safeCheckRedirect(scheme, host, fetch.via + 1, answer)} :
          fetch' = IF refused = ""
                   THEN [fetch EXCEPT !.pc = "dial", !.scheme = scheme, !.host = host,
                                      !.via = @ + 1, !.ips = answer.ips, !.peer = <<>>]
                   ELSE AfterDo(fetch, IF refused = "timeout" THEN Timeout ELSE Failure)
    /\ UNCHANGED beyondFetch

-----------------------------------------------------------------------------
(* Fetcher harness: hosts, what the resolver says of them, what servers answer *)

PublicV4 == V4(93, 184, 216, 34)

\* one address of each range, and neighbours just outside
SampleIPs ==
    [loopback4 |-> V4(127, 0, 0, 1), loopback6 |-> V6(0, 0, 1),
     linklocal4 |-> V4(169, 254, 169, 254), linklocal6 |-> V6(254, 128, 1),
     private10 |-> V4(10, 1, 2, 3), private172 |-> V4(172, 31, 0, 1),
     private192 |-> V4(192, 168, 1, 1), mapped10 |-> Mapped(V4(10, 0, 0, 1)),
     cgnat |-> V4(100, 64, 0, 1), cgnatTop |-> V4(100, 127, 255, 254),
     ula |-> V6(253, 0, 1), multicast4 |-> V4(239, 1, 1, 1),
     multicast6 |-> V6(255, 14, 1), unspecified4 |-> V4(0, 0, 0, 0),
     unspecified6 |-> V6(0, 0, 0),
     public |-> PublicV4, above172 |-> V4(172, 32, 0, 1), aboveCgnat |-> V4(100, 128, 0, 1),
     public6 |-> V6(32, 1, 1)]

\* the answers the resolver may give for a host; a host with one sample
\* address bears the name of that sample
DNS ==
    [h \in DOMAIN SampleIPs |-> {Answer({SampleIPs[h]})}]
    @@ ("example.org" :> {Answer({PublicV4}), LookupFailed("timeout")})
    @@ ("mixed.example" :> {Answer({PublicV4, SampleIPs.private10})})
    @@ ("rebind.example" :> {Answer({PublicV4}), Answer({SampleIPs.loopback4})})
    @@ ("LocalHost" :> {Answer({SampleIPs.loopback4, SampleIPs.loopback6})})
    @@ ("printer.local" :> {Answer({PublicV4})})
    @@ ("gone.example" :> {LookupFailed("no such host")})

Hosts == DOMAIN DNS

\* net.LookupIP(host)
LookupIP(host) == IF host \in Hosts THEN DNS[host] ELSE {LookupFailed("no such host")}

Outcomes == {Timeout, Failure} \cup {Status(code) : code \in {200, 403, 404, 429, 500, 502, 503, 504}}

NextFetch ==
    \/ \E host \in Hosts : FetchBegin(host)
    \/ \E how \in {"canceled", "deadline"} : ContextEnds(how)
    \/ FetchTick
    \/ FetchCtxDone
    \/ FetchAttempt
    \/ FetchCtxAbort
    \/ \E checked \in LookupIP(fetch.host), dialed \in LookupIP(fetch.host),
          connected \in {"connected", "timeout", "refused"} :
          \E peer \in IF dialed.ips = {} THEN {<<>>} ELSE dialed.ips :
             safeDialContext(checked, dialed, peer, connected)
    \/ \E outcome \in Outcomes : FetchRespond(outcome)
    \/ \E scheme \in {"https", "ftp"}, host \in Hosts \cup {""} :
          \E answer \in LookupIP(host) :
             FetchRedirect(scheme, host, answer)

InitFetcher ==
    /\ rows = NoRows
    /\ lastOp = NoOp
    /\ maxWritten = NoWrites
    /\ now = 1
    /\ opp = ZeroOpp
    /\ decision = NoDecision
    /\ picked = Unpicked
    /\ InitRest

SpecFetch == InitFetcher /\ [][NextFetch]_vars

-----------------------------------------------------------------------------
(* IngestSource and GrantsGovStrategy.Run: internal/ingest/pipeline.go *)

\* 24 * time.Hour, in instants
Day == 1

\* FetchOpportunities, the two "continue" of its loop: a record whose closing
\* day has ended, a record without title
Dropped(rec, t) ==
    \/ IsSet(rec.CloseDate) /\ Val(rec.CloseDate) + Day < t
    \/ rec.Title = ""

\* the Opportunity FetchOpportunities builds from a hit of the search API
GrantsGovOpp(rec) ==
    [ListingOpp EXCEPT !.Title = rec.Title, !.SourceDomain = "grants.gov",
                       !.SourceID = rec.ID, !.OppStatus = "posted",
                       !.DeadlineAt = rec.CloseDate,
                       !.FunderType = "Government", !.Region = "North America",
                       !.Country = "USA"]

\* FetchOpportunities: the opportunities built from the hits that are kept,
\* and the hit count of the response
FetchOpportunities(resp, t) ==
    IF resp.err # ""
    THEN [err |-> "API request failed", opportunities |-> <<>>, totalHits |-> 0]
    ELSE LET Keep(rec) == ~Dropped(rec, t)
             Built(kept) == [i \in 1..Len(kept) |-> GrantsGovOpp(kept[i])]
         IN  [err |-> "", opportunities |-> Built(SelectSeq(resp.oppHits, Keep)),
              totalHits |-> resp.hitCount]

\* the loop over one page: SaveOpportunity of each opportunity, counted as
\* saved or as error
RECURSIVE SavePage(_, _, _, _)
SavePage(rs, stats, opportunities, t) ==
    IF opportunities = <<>> THEN [rows |-> rs, stats |-> stats]
    ELSE LET Saved(out) ==
                 SavePage(out.rows,
                          IF out.op.ok THEN [stats EXCEPT !.TotalSaved = @ + 1]
                          ELSE [stats EXCEPT !.Errors = @ + 1],
                          Tail(opportunities), t)
         IN  Saved(SaveOutcome(Head(opportunities), rs, t, NoExtraction, NoCandidates))

\* IngestSource, the deferred function: the status recorded for the run
RunStatus(stats) ==
    IF stats.Errors > 0 /\ stats.TotalSaved = 0 /\ stats.TotalFound > 0 THEN "failed"
    ELSE "completed"

\* IngestSource up to strategy.Run: the INSERT of the run row, the registry,
\* the source and its strategy
IngestBegin(inserted, registry, source) ==
    /\ ingest.pc = "idle"
    /\ ingest' = [NoIngest EXCEPT
                    !.runID = IF inserted THEN "run-1" ELSE "",
                    !.run = IF inserted THEN [NoRun EXCEPT !.status = "running"] ELSE NoRun,
                    !.pc = IF registry = "" THEN "page" ELSE "exit",
                    !.err = registry,
                    !.source = source]
    /\ UNCHANGED <<rows, beyondIngest>>

\* the caller cancels the context while IngestSource runs
IngestCancel ==
    /\ ingest.pc \in {"page", "exit"}
    /\ ingest.ctx = "live"
    /\ ingest' = [ingest EXCEPT !.ctx = "canceled"]
    /\ UNCHANGED <<rows, beyondIngest>>

\* the positions of the result set whose records FetchOpportunities keeps of
\* the page that starts after offset
KeptOfPage(source, offset, hits, t) ==
    {i \in 1..Len(source) : offset < i /\ i <= offset + hits /\ ~Dropped(source[i], t)}

\* GrantsGovStrategy.Run, one round of its loop: a page is fetched, its
\* opportunities saved; the request of a cancelled context fails
GrantsGovPage(resp) ==
    /\ ingest.pc = "page"
    /\ resp.err # "" \/ ingest.ctx = "live"
    /\ \E page \in {FetchOpportunities(resp, now)} :
         IF page.err # ""
         THEN /\ ingest' = [ingest EXCEPT !.pc = "exit", !.err = "grants.gov fetch error",
                                          !.asked = Append(@, ingest.offset)]
              /\ rows' = rows
         ELSE \E out \in {SavePage(rows, [ingest.stats EXCEPT !.TotalFound = page.totalHits],
                                   page.opportunities, now)} :
                /\ rows' = out.rows
                /\ ingest' = [ingest EXCEPT
                                !.stats = out.stats,
                                !.offset = @ + Len(page.opportunities),
                                !.asked = Append(@, ingest.offset),
                                !.passed = @ \cup KeptOfPage(ingest.source, ingest.offset,
                                                             Len(resp.oppHits), now),
                                !.pc = IF \/ Len(page.opportunities) = 0
                                          \/ ingest.offset + Len(page.opportunities)
                                                >= page.totalHits
                                       THEN "exit" ELSE "page"]
    /\ UNCHANGED beyondIngest

\* IngestSource returns: the deferred UPDATE of the run row, when there is
\* one; Exec fails on a cancelled context, and may fail on its own
IngestExit(execErr) ==
    /\ ingest.pc = "exit"
    /\ (ingest.ctx = "live") = (execErr # "context canceled")
    /\ ingest' = [ingest EXCEPT
                    !.pc = "done",
                    !.execErr = IF ingest.runID # "" THEN execErr ELSE "",
                    !.run = IF ingest.runID # "" /\ execErr = ""
                            THEN [status |-> RunStatus(ingest.stats),
                                  items_found |-> ingest.stats.TotalFound,
                                  items_saved |-> ingest.stats.TotalSaved,
                                  errors |-> ingest.stats.Errors,
                                  completed_at |-> Ptr(now)]
                            ELSE @]
    /\ UNCHANGED <<rows, beyondIngest>>

-----------------------------------------------------------------------------
(* Ingest harness: what the registry and the search API answer *)

PageSize == 2       \* hits per page (pageSize)
MaxHits == 3        \* the result set of the search API holds 0..MaxHits records

\* the records of the result set: one that closes today, one whose closing
\* day has ended, one without id (SaveOpportunity refuses it), one without title
SourceRecords ==
    {[ID |-> "A-1", Title |-> "Grant call", CloseDate |-> Ptr(MaxTime)],
     [ID |-> "A-2", Title |-> "Grant call", CloseDate |-> Ptr(1)],
     [ID |-> "", Title |-> "Grant call", CloseDate |-> Nil],
     [ID |-> "A-3", Title |-> "", CloseDate |-> Nil]}

Sources == UNION {[1..n -> SourceRecords] : n \in 0..MaxHits}

\* the search API: pageSize records of the result set from startRecordNum on, and
\* the size of the result set
SearchAPI(source, pageSize, startRecordNum) ==
    [err |-> "",
     oppHits |-> SubSeq(source, startRecordNum + 1,
                        IF startRecordNum + pageSize < Len(source)
                        THEN startRecordNum + pageSize ELSE Len(source)),
     hitCount |-> Len(source)]

\* what a request gets: the page of the result set, or a failure
Responses(run) ==
    {SearchAPI(run.source, PageSize, run.offset),
     [err |-> "API request failed", oppHits |-> <<>>, hitCount |-> 0]}

RegistryErrors == {"", "failed to load registry", "source id not found", "strategy not found"}

InitIngestHarness ==
    /\ rows = NoRows
    /\ lastOp = NoOp
    /\ maxWritten = NoWrites
    /\ now = MaxTime
    /\ opp = ZeroOpp
    /\ decision = NoDecision
    /\ picked = Unpicked
    /\ InitRest

NextIngest ==
    \/ \E inserted \in BOOLEAN, registry \in RegistryErrors, source \in Sources :
          IngestBegin(inserted, registry, source)
    \/ IngestCancel
    \/ \E resp \in Responses(ingest) : GrantsGovPage(resp)
    \/ \E execErr \in {"", "context canceled", "connection lost"} : IngestExit(execErr)

SpecIngest == InitIngestHarness /\ [][NextIngest]_vars

-----------------------------------------------------------------------------
(* ListOpportunities and GetAggregations: internal/db/store.go *)

\* column = ANY($n) on a nullable text column
AnyOf(column, values) == IsSet(column) /\ Val(column) \in SeqToSet(values)

\* column >= NOW() on a nullable timestamp
NotBeforeNow(column, t) == IsSet(column) /\ Val(column) >= t

\* the open tab keeps every row whose normalized_status is 'open'
buildOpenTabConstraint_StatusOnly(r, t) == r.normalized_status = "open"

buildOpenTabConstraint(r, t) ==
    /\ r.normalized_status = "open"
    /\ r.is_results_page = FALSE
    /\ \/ r.rolling_evidence = TRUE
       \/ NotBeforeNow(r.next_deadline_at, t)
       \/ NotBeforeNow(r.close_at, t)

\* ListOpportunities, the status filter
ListStatusFilter(status, r, t) ==
    LET Target(targetStatus) ==
            IF targetStatus = "open" THEN buildOpenTabConstraint(r, t)
            ELSE IF targetStatus = "all" THEN TRUE
            ELSE IF targetStatus = "closed" THEN r.normalized_status \in {"closed", "archived"}
            ELSE r.normalized_status = (IF targetStatus = "posted" THEN "open"
                                        ELSE targetStatus)
        Defaulted(targetStatus) == Target(IF targetStatus = "active" THEN "open"
                                          ELSE targetStatus)
    IN  Defaulted(IF status = "" THEN "open" ELSE status)

\* ListOpportunities, the WHERE clause; the search text, the agency code, the
\* amounts, the categories and the eligibility are left at their zero values
ListWhere(r, params, t) ==
    /\ params.Source # "" => r.source_domain = params.Source
    /\ Len(params.Region) > 0 => AnyOf(r.region, params.Region)
    /\ Len(params.FunderType) > 0 => AnyOf(r.funder_type, params.FunderType)
    /\ Len(params.Country) > 0 => AnyOf(r.country, params.Country)
    /\ Len(params.AgencyName) > 0 => AnyOf(r.agency_name, params.AgencyName)
    /\ ListStatusFilter(params.Status, r, t)
    /\ params.DeadlineDays > 0 =>
          \/ r.is_rolling = TRUE
          \/ /\ NotBeforeNow(r.next_deadline_at, t)
             /\ Val(r.next_deadline_at) <= t + params.DeadlineDays
    /\ IsSet(params.IsRolling) => r.is_rolling = Val(params.IsRolling)

\* the rows SELECT COUNT(*) counts
ListMatches(rs, params, t) == {i \in DOMAIN rs : ListWhere(rs[i], params, t)}

\* the orders ORDER BY may give the matching rows
OrdersOf(ids) ==
    {order \in [1..Cardinality(ids) -> ids] :
        \A i, j \in 1..Cardinality(ids) : order[i] = order[j] => i = j}

\* LIMIT $n OFFSET $m
PageOf(order, limit, offset) ==
    SubSeq(order, offset + 1, IF offset + limit < Len(order) THEN offset + limit ELSE Len(order))

\* ListOpportunities(ctx, params); order is the order the sort gives
ListOpportunities(params, order) ==
    /\ order \in OrdersOf(ListMatches(rows, params, now))
    /\ \E page \in {PageOf(order, params.Limit, params.Offset)} :
          queried' = [NoAnswer EXCEPT !.kind = "list", !.params = params, !.at = now,
                                     !.Total = Len(order),
                                     !.Opportunities = [k \in DOMAIN page |-> rows[page[k]]]]
    /\ UNCHANGED beyondQueries

\* every dimension is filtered by its own selection too
buildAggregationWhereExcluding_NoExclusion(r, params, exclude, t) ==
    ListWhere(r, [NoParams EXCEPT !.Status = params.Status, !.Region = params.Region,
                                  !.FunderType = params.FunderType,
                                  !.Country = params.Country,
                                  !.AgencyName = params.AgencyName], t)

buildAggregationWhereExcluding(r, params, exclude, t) ==
    LET StatusClause(status) ==
            IF status = "open" THEN buildOpenTabConstraint(r, t)
            ELSE IF status = "closed" THEN r.normalized_status \in {"closed", "archived"}
            ELSE IF status # "all"
            THEN r.normalized_status = (IF status = "posted" THEN "open" ELSE status)
            ELSE TRUE
    IN  /\ StatusClause(IF params.Status = "" \/ params.Status = "active" THEN "open"
                  ELSE params.Status)
        /\ (Len(params.Region) > 0 /\ exclude # "region") => AnyOf(r.region, params.Region)
        /\ (Len(params.FunderType) > 0 /\ exclude # "funder_type")
              => AnyOf(r.funder_type, params.FunderType)
        /\ (Len(params.Country) > 0 /\ exclude # "country")
              => AnyOf(r.country, params.Country)
        /\ (Len(params.AgencyName) > 0 /\ exclude # "agency_name")
              => AnyOf(r.agency_name, params.AgencyName)

\* SELECT COALESCE(column, 'Unknown'), COUNT(*) ... GROUP BY column, over the
\* rows of ids; the order of the groups is left out
GroupCount(rs, ids, dimension) ==
    LET ValueOf(i) == TextOf(COALESCE(rs[i][dimension], Ptr("Unknown")))
    IN  {[Value |-> v, Count |-> Cardinality({i \in ids : ValueOf(i) = v})] :
            v \in {ValueOf(i) : i \in ids}}

\* one block of GetAggregations: the facet counts of a dimension
FacetCounts(rs, params, dimension, t) ==
    LET kept == {i \in DOMAIN rs :
                    /\ buildAggregationWhereExcluding(rs[i], params, dimension, t)
                    /\ dimension \in {"agency_name", "country"}
                          => TextOf(rs[i][dimension]) # ""}
    IN  {ag \in GroupCount(rs, kept, dimension) :
            dimension \in {"region", "funder_type"} => ag.Value # ""}

\* GetAggregations(ctx, params)
GetAggregations(params) ==
    /\ queried' = [NoAnswer EXCEPT
                    !.kind = "aggregations", !.params = params, !.at = now,
                    !.Regions = FacetCounts(rows, params, "region", now),
                    !.FunderTypes = FacetCounts(rows, params, "funder_type", now),
                    !.Agencies = FacetCounts(rows, params, "agency_name", now),
                    !.Countries = FacetCounts(rows, params, "country", now)]
    /\ UNCHANGED beyondQueries

-----------------------------------------------------------------------------
(* Query harness: a small catalogue, recomputed and queried *)

\* a listing with a deadline ahead, a rolling call, a listing without dates,
\* each of its own source id, region and funder type
QueryOpps ==
    {[ListingOpp EXCEPT !.OppStatus = "posted", !.DeadlineAt = Ptr(MaxTime),
                        !.Region = "Europe", !.FunderType = "Government",
                        !.Country = "France", !.AgencyName = "EC"],
     [ListingOpp EXCEPT !.SourceID = "A-2", !.Title = "A rolling call", !.IsRolling = TRUE,
                        !.OppStatus = "posted", !.Region = "Africa",
                        !.FunderType = "Government"],
     [ListingOpp EXCEPT !.SourceID = "A-3", !.OppStatus = "posted", !.Region = "Europe",
                        !.FunderType = "Foundation", !.Country = "Spain"]}

SaveQuery == \E o \in QueryOpps : SaveOpportunity(o, NoExtraction, NoCandidates)

\* the LLM calls the rows under review open, or gives no answer
RecomputeQuery ==
    \E review \in {ReviewRows(rows, now)} :
        \E asked \in [review -> {"", "posted"}] :
            RecomputeStatuses([i \in DOMAIN rows |-> IF i \in review THEN asked[i] ELSE ""])

QueryStatuses == {"", "open", "active", "posted", "closed", "all"}

\* the facet selections of the sidebar
QuerySelections ==
    {NoParams, [NoParams EXCEPT !.Region = <<"Europe">>],
     [NoParams EXCEPT !.Region = <<"Europe">>, !.FunderType = <<"Government">>]}

\* the lists asked for: the open tab by default and by name, and two other tabs
ListParamsSet ==
    {[sel EXCEPT !.Status = status, !.Limit = 2] :
        sel \in {NoParams, [NoParams EXCEPT !.Region = <<"Europe">>]},
        status \in {"", "open", "posted", "closed"}}

AggregationParamsSet ==
    {[sel EXCEPT !.Status = status] : sel \in QuerySelections, status \in {"", "all"}}

ListQuery ==
    \E params \in ListParamsSet :
        \E order \in OrdersOf(ListMatches(rows, params, now)) : ListOpportunities(params, order)

AggregateQuery == \E params \in AggregationParamsSet : GetAggregations(params)

NextQuery == SaveQuery \/ RecomputeQuery \/ ListQuery \/ AggregateQuery

SpecQuery == InitStore /\ [][NextQuery]_vars

-----------------------------------------------------------------------------
(* ApplyMigrations: internal/db/migrate.go *)

\* the printable ASCII bytes, 0x20 to 0x7E, in byte order; a tab holds the place of the
\* backquote (0x60), which no string here contains
Bytes ==
    " !\"#$%&'()*+,-./0123456789:;<=>?@ABCDEFGHIJKLMNOPQRSTUVWXYZ[\\]^_\tabcdefghijklmnopqrstuvwxyz{|}~"

ByteOf(c) == CHOOSE i \in 1..Len(Bytes) : SubSeq(Bytes, i, i) = c

\* a < b as Go compares strings: byte by byte, a proper prefix first
StringLess(a, b) ==
    \E i \in 1..(Len(a) + 1) :
       /\ i <= Len(b)
       /\ SubSeq(a, 1, i - 1) = SubSeq(b, 1, i - 1)
       /\ \/ i = Len(a) + 1
          \/ i <= Len(a) /\ ByteOf(SubSeq(a, i, i)) < ByteOf(SubSeq(b, i, i))

\* sort.Strings, on names that are all different
RECURSIVE sortStrings(_)
sortStrings(names) ==
    IF names = {}
    THEN <<>>
    ELSE LET first == CHOOSE x \in names : \A y \in names \ {x} : StringLess(x, y)
         IN  <<first>> \o sortStrings(names \ {first})

\* the entries of the directory ApplyMigrations keeps: filepath.Ext(name) == ".sql"
migrationFiles(entries) == {name \in entries : HasSuffix(name, ".sql")}

\* how many times a process starts
MaxRuns == 3

\* ApplyMigrations returns err; the process logs it and exits
MigrateReturn(err) ==
    migrate' = [migrate EXCEPT !.pc = "returned", !.todo = <<>>, !.err = err]

\* a process starts and calls ApplyMigrations: the table is ensured, the directory read,
\* the names ending in .sql sorted
ApplyMigrations(entries, ensured, read) ==
    /\ migrate.pc \in {"idle", "returned"}
    /\ migrate.runs < MaxRuns
    /\ LET started == [migrate EXCEPT !.runs = @ + 1, !.listed = entries, !.todo = <<>>]
       IN  IF ~ensured
           THEN migrate' = [started EXCEPT
                               !.pc = "returned",
                               !.err = "failed to ensure schema_migrations table"]
           ELSE IF ~read
           THEN migrate' = [started EXCEPT
                               !.pc = "returned",
                               !.err = "failed to read migrations directory"]
           ELSE migrate' = [started EXCEPT
                               !.pc = "loop", !.err = "",
                               !.todo = sortStrings(migrationFiles(entries))]
    /\ UNCHANGED beyondMigrate

\* the head of the loop: past the last name the call returns nil; else the name is looked
\* up in schema_migrations and, when absent, its file is read
MigrationCheck(checked, read) ==
    /\ migrate.pc = "loop"
    /\ IF migrate.todo = <<>>
       THEN MigrateReturn("")
       ELSE LET fileName == Head(migrate.todo)
                alreadyApplied == fileName \in migrate.schema_migrations
            IN  IF ~checked
                THEN MigrateReturn("failed to check migration")
                ELSE IF alreadyApplied
                THEN migrate' = [migrate EXCEPT !.todo = Tail(@)]
                ELSE IF ~read
                THEN MigrateReturn("failed to read migration file")
                ELSE migrate' = [migrate EXCEPT !.pc = "exec"]
    /\ UNCHANGED beyondMigrate

\* pool.Exec(ctx, string(content)): the statements of the file run, or fail as a whole
MigrationExec(executed) ==
    /\ migrate.pc = "exec"
    /\ IF ~executed
       THEN MigrateReturn("failed to execute migration")
       ELSE migrate' = [migrate EXCEPT
                           !.pc = "mark",
                           !.executed = Append(@, [run |-> migrate.runs,
                                                   file |-> Head(migrate.todo)])]
    /\ UNCHANGED beyondMigrate

\* INSERT INTO schema_migrations (filename) VALUES ($1), a statement of its own
MigrationMark(marked) ==
    /\ migrate.pc = "mark"
    /\ IF ~marked
       THEN MigrateReturn("failed to mark migration as applied")
       ELSE migrate' = [migrate EXCEPT
                           !.pc = "loop",
                           !.schema_migrations = @ \cup {Head(migrate.todo)},
                           !.todo = Tail(@)]
    /\ UNCHANGED beyondMigrate

-----------------------------------------------------------------------------
(* Migration harness: a directory that grows between deployments *)

FirstRelease == {"010_b.sql", "2_d.sql", "notes.md"}

SecondRelease == FirstRelease \cup {"002_a.sql", "10_c.sql"}

Releases == {FirstRelease, SecondRelease}

\* the directories a later deployment can ship: files are added, never removed
Grown(listed) == {entries \in Releases : listed \subseteq entries}

NextMigrate ==
    \/ \E entries \in Grown(migrate.listed), ensured \in BOOLEAN, read \in BOOLEAN :
          ApplyMigrations(entries, ensured, read)
    \/ \E checked \in BOOLEAN, read \in BOOLEAN : MigrationCheck(checked, read)
    \/ \E executed \in BOOLEAN : MigrationExec(executed)
    \/ \E marked \in BOOLEAN : MigrationMark(marked)

SpecMigrate == InitFetcher /\ [][NextMigrate]_vars

-----------------------------------------------------------------------------
(* CanonicalizeURL: internal/ingest/strategy_html.go, over net/url *)

\* the byte c stands for, and the one-byte string of a byte
Ord(c) == ByteOf(c) + 31

Chr(n) == SubSeq(Bytes, n - 31, n - 31)

HexDigits == "0123456789ABCDEF"

ishex(c) == c \in {SubSeq("0123456789abcdefABCDEF", i, i) : i \in 1..22}

unhex(c) ==
    LET upper == SubSeq("0123456789ABCDEF", 1, 16)
        lower == SubSeq("0123456789abcdef", 1, 16)
    IN  IF \E i \in 1..16 : SubSeq(upper, i, i) = c
        THEN (CHOOSE i \in 1..16 : SubSeq(upper, i, i) = c) - 1
        ELSE (CHOOSE i \in 1..16 : SubSeq(lower, i, i) = c) - 1

IsAlnum(c) == Len(c) = 1 /\ \/ Ord(c) \in 48..57
                            \/ Ord(c) \in 65..90
                            \/ Ord(c) \in 97..122

CharsOf(str) == {SubSeq(str, i, i) : i \in 1..Len(str)}

\* net/url shouldEscape, for the modes CanonicalizeURL goes through
shouldEscape(c, mode) ==
    IF IsAlnum(c) THEN FALSE
    ELSE IF mode = "host" /\ c \in CharsOf("!$&'()*+,;=:[]<>\"") THEN FALSE
    ELSE IF c \in CharsOf("-_.~") THEN FALSE
    ELSE IF c \in CharsOf("$&+,/:;=?@")
    THEN CASE mode = "path" -> c = "?"
           [] mode = "query" -> TRUE
           [] mode = "fragment" -> FALSE
           [] OTHER -> TRUE
    ELSE IF mode = "fragment" /\ c \in CharsOf("!()*") THEN FALSE
    ELSE TRUE

\* the escapes of str are well formed, and in a host stand for bytes at or above 0x80,
\* %25 apart; a host holds no byte that would have to be escaped
validEscapes(str, mode) ==
    \A i \in 1..Len(str) :
       LET c == SubSeq(str, i, i)
       IN  IF c = "%"
           THEN /\ i + 2 <= Len(str)
                /\ ishex(SubSeq(str, i + 1, i + 1))
                /\ ishex(SubSeq(str, i + 2, i + 2))
                /\ mode = "host" =>
                      (unhex(SubSeq(str, i + 1, i + 1)) >= 8 \/ SubSeq(str, i, i + 2) = "%25")
           ELSE mode = "host" => ~shouldEscape(c, "host")

\* the bytes a string of well-formed escapes stands for
RECURSIVE decoded(_, _)
decoded(str, mode) ==
    IF Len(str) = 0 THEN ""
    ELSE IF SubSeq(str, 1, 1) = "%"
    THEN Chr(16 * unhex(SubSeq(str, 2, 2)) + unhex(SubSeq(str, 3, 3)))
         \o decoded(SubSeq(str, 4, Len(str)), mode)
    ELSE IF mode = "query" /\ SubSeq(str, 1, 1) = "+"
    THEN " " \o decoded(SubSeq(str, 2, Len(str)), mode)
    ELSE SubSeq(str, 1, 1) \o decoded(SubSeq(str, 2, Len(str)), mode)

\* net/url unescape: ok is FALSE for a malformed escape or a byte the host may not hold
unescape(str, mode) ==
    IF validEscapes(str, mode)
    THEN [ok |-> TRUE, text |-> decoded(str, mode)]
    ELSE [ok |-> FALSE, text |-> ""]

\* net/url escape
RECURSIVE escape(_, _)
escape(str, mode) ==
    IF Len(str) = 0 THEN ""
    ELSE LET c == SubSeq(str, 1, 1)
             rest == escape(SubSeq(str, 2, Len(str)), mode)
         IN  IF ~shouldEscape(c, mode) THEN c \o rest
             ELSE IF c = " " /\ mode = "query" THEN "+" \o rest
             ELSE "%" \o SubSeq(HexDigits, (Ord(c) \div 16) + 1, (Ord(c) \div 16) + 1)
                      \o SubSeq(HexDigits, (Ord(c) % 16) + 1, (Ord(c) % 16) + 1)
                      \o rest

\* strings.Index and strings.LastIndex, counted from 1; 0 when sub does not occur
Index(str, sub) ==
    IF Contains(str, sub)
    THEN CHOOSE i \in 1..Len(str) :
            /\ SubSeq(str, i, i + Len(sub) - 1) = sub
            /\ \A j \in 1..(i - 1) : SubSeq(str, j, j + Len(sub) - 1) # sub
    ELSE 0

LastIndex(str, sub) ==
    IF Contains(str, sub)
    THEN CHOOSE i \in 1..Len(str) :
            /\ SubSeq(str, i, i + Len(sub) - 1) = sub
            /\ \A j \in (i + 1)..Len(str) : SubSeq(str, j, j + Len(sub) - 1) # sub
    ELSE 0

HasPrefix(str, prefix) == Len(str) >= Len(prefix) /\ SubSeq(str, 1, Len(prefix)) = prefix

\* strings.Cut: what stands before and after the first sep
CutBefore(str, sep) == IF Contains(str, sep) THEN SubSeq(str, 1, Index(str, sep) - 1) ELSE str

CutAfter(str, sep) ==
    IF Contains(str, sep) THEN SubSeq(str, Index(str, sep) + Len(sep), Len(str)) ELSE ""

\* net/url getScheme: the scheme and what follows its colon; ok is FALSE for a leading colon
RECURSIVE getSchemeFrom(_, _)
getSchemeFrom(rawURL, i) ==
    IF i > Len(rawURL) THEN [ok |-> TRUE, scheme |-> "", rest |-> rawURL]
    ELSE LET c == SubSeq(rawURL, i, i)
         IN  IF Ord(c) \in 65..90 \/ Ord(c) \in 97..122
             THEN getSchemeFrom(rawURL, i + 1)
             ELSE IF Ord(c) \in 48..57 \/ c \in CharsOf("+-.")
             THEN IF i = 1
                  THEN [ok |-> TRUE, scheme |-> "", rest |-> rawURL]
                  ELSE getSchemeFrom(rawURL, i + 1)
             ELSE IF c = ":"
             THEN IF i = 1
                  THEN [ok |-> FALSE, scheme |-> "", rest |-> ""]
                  ELSE [ok |-> TRUE, scheme |-> SubSeq(rawURL, 1, i - 1),
                        rest |-> SubSeq(rawURL, i + 1, Len(rawURL))]
             ELSE [ok |-> TRUE, scheme |-> "", rest |-> rawURL]

getScheme(rawURL) == getSchemeFrom(rawURL, 1)

\* net/url validOptionalPort: nothing, or a colon and digits
validOptionalPort(port) ==
    \/ port = ""
    \/ /\ SubSeq(port, 1, 1) = ":"
       /\ \A i \in 2..Len(port) : Ord(SubSeq(port, i, i)) \in 48..57

\* net/url parseHost, for a host that is no bracketed IP literal
parseHost(host) ==
    IF LastIndex(host, ":") # 0 /\ ~validOptionalPort(SubSeq(host, LastIndex(host, ":"), Len(host)))
    THEN [ok |-> FALSE, text |-> ""]
    ELSE unescape(host, "host")

\* a URL that did not parse
BadURL ==
    [ok |-> FALSE, Scheme |-> "", Opaque |-> "", Host |-> "", Path |-> "", RawPath |-> "",
     OmitHost |-> FALSE, ForceQuery |-> FALSE, RawQuery |-> "", Fragment |-> ""]

EmptyURL == [BadURL EXCEPT !.ok = TRUE]

\* net/url setPath: Path is the decoded path, RawPath is kept when it is no default encoding
setPath(u, p) ==
    LET path == unescape(p, "path")
    IN  IF ~path.ok THEN BadURL
        ELSE [u EXCEPT !.Path = path.text,
                       !.RawPath = IF escape(path.text, "path") = p THEN "" ELSE p]

\* net/url parse, viaRequest = false, of a string without fragment, userinfo or IP literal
parseNoFragment(rawURL) ==
    IF rawURL = "*" THEN [EmptyURL EXCEPT !.Path = "*"]
    ELSE LET s0 == getScheme(rawURL)
             scheme == ToLower(s0.scheme)
             afterScheme == s0.rest
             force == /\ HasSuffix(afterScheme, "?")
                      /\ Index(afterScheme, "?") = Len(afterScheme)
             rest == IF force THEN SubSeq(afterScheme, 1, Len(afterScheme) - 1)
                     ELSE CutBefore(afterScheme, "?")
             query == IF force THEN "" ELSE CutAfter(afterScheme, "?")
             u == [EmptyURL EXCEPT !.Scheme = scheme, !.ForceQuery = force, !.RawQuery = query]
             Authority(a) ==
                LET authority == CutBefore(a, "/")
                    path == IF Contains(a, "/") THEN SubSeq(a, Index(a, "/"), Len(a)) ELSE ""
                    host == parseHost(authority)
                IN  IF ~host.ok THEN BadURL
                    ELSE setPath([u EXCEPT !.Host = host.text], path)
         IN  IF ~s0.ok THEN BadURL
             ELSE IF ~HasPrefix(rest, "/") /\ scheme # ""
             THEN [u EXCEPT !.Opaque = rest]
             ELSE IF ~HasPrefix(rest, "/") /\ Contains(CutBefore(rest, "/"), ":")
             THEN BadURL
             ELSE IF (scheme # "" \/ ~HasPrefix(rest, "///")) /\ HasPrefix(rest, "//")
             THEN Authority(SubSeq(rest, 3, Len(rest)))
             ELSE IF scheme # "" /\ HasPrefix(rest, "/")
             THEN setPath([u EXCEPT !.OmitHost = TRUE], rest)
             ELSE setPath(u, rest)

\* url.Parse: the fragment is cut off first and decoded
Parse(rawURL) ==
    LET u == parseNoFragment(CutBefore(rawURL, "#"))
        frag == unescape(CutAfter(rawURL, "#"), "fragment")
    IN  IF ~u.ok \/ ~frag.ok THEN BadURL
        ELSE [u EXCEPT !.Fragment = frag.text]

\* net/url validEncoded, for a path
validEncoded(str) ==
    \A i \in 1..Len(str) :
       LET c == SubSeq(str, i, i)
       IN  c \in CharsOf("!$&'()*+,;=:@[]%") \/ ~shouldEscape(c, "path")

\* URL.EscapedPath
EscapedPath(u) ==
    IF /\ u.RawPath # ""
       /\ validEncoded(u.RawPath)
       /\ unescape(u.RawPath, "path").ok
       /\ unescape(u.RawPath, "path").text = u.Path
    THEN u.RawPath
    ELSE IF u.Path = "*" THEN "*"
    ELSE escape(u.Path, "path")

\* URL.String
URLString(u) ==
    LET scheme == IF u.Scheme # "" THEN u.Scheme \o ":" ELSE ""
        path == EscapedPath(u)
        authority ==
            IF u.Scheme # "" \/ u.Host # ""
            THEN (IF u.OmitHost /\ u.Host = "" THEN ""
                  ELSE IF u.Host # "" \/ u.Path # "" THEN "//" ELSE "")
                 \o escape(u.Host, "host")
            ELSE ""
        slash == IF path # "" /\ SubSeq(path, 1, 1) # "/" /\ u.Host # "" THEN "/" ELSE ""
        dot == IF scheme = "" /\ authority = "" /\ slash = "" /\ Contains(CutBefore(path, "/"), ":")
               THEN "./" ELSE ""
        hier == IF u.Opaque # "" THEN scheme \o u.Opaque
                ELSE scheme \o authority \o slash \o dot \o path
        query == IF u.ForceQuery \/ u.RawQuery # "" THEN "?" \o u.RawQuery ELSE ""
        fragment == IF u.Fragment # "" THEN "#" \o escape(u.Fragment, "fragment") ELSE ""
    IN  hier \o query \o fragment

\* strings.Split(query, "&")
RECURSIVE SplitAmp(_)
SplitAmp(query) ==
    IF ~Contains(query, "&") THEN <<query>>
    ELSE <<CutBefore(query, "&")>> \o SplitAmp(CutAfter(query, "&"))

\* url.ParseQuery as URL.Query uses it: the pairs in their order, a malformed pair is dropped
RECURSIVE PairsOf(_)
PairsOf(segments) ==
    IF segments = <<>> THEN <<>>
    ELSE LET segment == Head(segments)
             key == unescape(CutBefore(segment, "="), "query")
             value == unescape(CutAfter(segment, "="), "query")
             rest == PairsOf(Tail(segments))
         IN  IF segment = "" \/ Contains(segment, ";") \/ ~key.ok \/ ~value.ok
             THEN rest
             ELSE <<[key |-> key.text, value |-> value.text]>> \o rest

Query(u) == PairsOf(SplitAmp(u.RawQuery))

paramsToRemovePrefix == {"utm_"}

exactParamsToRemove == {"fbclid", "gclid", "mc_cid", "mc_eid", "mkt_tok", "ref", "session", "s_cid"}

\* the parameter names the two loops of CanonicalizeURL delete
IsRemoved_ExactOnly(k) == k \in exactParamsToRemove

IsRemoved(k) ==
    \/ \E prefix \in paramsToRemovePrefix : HasPrefix(k, prefix)
    \/ k \in exactParamsToRemove

\* q.Del of every removed name
Kept(pairs) == SelectSeq(pairs, LAMBDA pair : ~IsRemoved(pair.key))

\* the values of one key, in their order, each as &key=value
RECURSIVE EncodeKey(_, _)
EncodeKey(k, pairs) ==
    IF pairs = <<>> THEN ""
    ELSE (IF Head(pairs).key # k THEN ""
          ELSE "&" \o escape(k, "query") \o "=" \o escape(Head(pairs).value, "query"))
         \o EncodeKey(k, Tail(pairs))

\* Values.Encode: the keys sorted, the pairs joined by "&"
RECURSIVE EncodeKeys(_, _)
EncodeKeys(keys, pairs) ==
    IF keys = <<>> THEN ""
    ELSE EncodeKey(Head(keys), pairs) \o EncodeKeys(Tail(keys), pairs)

Encode(pairs) ==
    LET joined(all) == SubSeq(all, 2, Len(all))
    IN  joined(EncodeKeys(sortStrings({pairs[i].key : i \in DOMAIN pairs}), pairs))

CanonicalizeURL(rawURL) ==
    LET u == Parse(rawURL)
    IN  IF ~u.ok THEN rawURL
        ELSE URLString([u EXCEPT !.Host = ToLower(u.Host),
                                 !.Fragment = "",
                                 !.RawQuery = Encode(Kept(Query(u)))])

\* CanonicalizeURL(canon.raw), then CanonicalizeURL of what it returned
CanonicalizeFirst ==
    /\ canon.pc = "given"
    /\ canon' = [canon EXCEPT !.pc = "once", !.once = CanonicalizeURL(canon.raw)]
    /\ UNCHANGED beyondCanon

CanonicalizeSecond ==
    /\ canon.pc = "once"
    /\ canon' = [canon EXCEPT !.pc = "twice", !.twice = CanonicalizeURL(canon.once)]
    /\ UNCHANGED beyondCanon

-----------------------------------------------------------------------------
(* Canonicalization harness: URLs put together from their parts *)

URLSchemes == {"http://", "HTTPS://"}

URLHosts == {"example.org", "Example.ORG:8080"}

URLPaths == {"", "/a", "/a%20b/C", "/100%"}

URLQueries ==
    {"", "?", "?utm_source=x", "?b=2&a=1&ref=3&b=1", "?%75tm_id=1&a=%zz", "?a=1;b=2&c",
     "?UTM_x=1&Ref=2", "?q=a+b&q=c%26d&gclid=9"}

URLFragments == {"", "#top", "#50%"}

OtherURLs == {"mailto:A@B.org?ref=1", "/rel/p?session=1#x", "a b:c", ":x", "//Host/x y?a=b"}

URLInputs ==
    {scheme \o host \o path \o query \o fragment :
        scheme \in URLSchemes, host \in URLHosts, path \in URLPaths, query \in URLQueries,
        fragment \in URLFragments}
    \cup OtherURLs

InitCanonHarness ==
    /\ rows = NoRows
    /\ lastOp = NoOp
    /\ maxWritten = NoWrites
    /\ now = 1
    /\ opp = ZeroOpp
    /\ decision = NoDecision
    /\ picked = Unpicked
    /\ InitServer /\ InitCalls /\ InitFetch /\ InitIngest /\ InitQueries /\ InitMigrate
    /\ InitCrawl
    /\ canon \in {[NoCanon EXCEPT !.pc = "given", !.raw = rawURL] : rawURL \in URLInputs}

NextCanon == CanonicalizeFirst \/ CanonicalizeSecond

SpecCanon == InitCanonHarness /\ [][NextCanon]_vars

-----------------------------------------------------------------------------
(* The site a crawl runs on: list pages whose next links may come back to a page seen *)

BaseURLs == {"https://example.org/g", "https://example.org/%"}

PageURLs ==
    {"https://example.org/g", "https://example.org/g?page=2",
     "HTTPS://Example.org/g?utm_source=next&page=2#list", "https://example.org/g?page=3",
     "https://example.org/g?page=4"}

\* the href values the pagination selector can match on a page
LinkURLs == PageURLs \cup {"#top", "/g%"}

\* Request.AbsoluteURL of an absolute href: "" for a fragment link or a href that does not
\* parse, else the parsed URL written out again
AbsoluteURL(href) ==
    IF HasPrefix(href, "#") \/ ~Parse(href).ok THEN "" ELSE URLString(Parse(href))

\* url.Parse, Request.AbsoluteURL and CanonicalizeURL on the URLs of the site, each
\* computed once
ParsedBaseURL == [baseURL \in BaseURLs |-> Parse(baseURL)]

AbsoluteLink == [href \in LinkURLs |-> AbsoluteURL(href)]

CanonicalPage ==
    [pageURL \in BaseURLs \cup {AbsoluteLink[href] : href \in LinkURLs} |->
        CanonicalizeURL(pageURL)]

-----------------------------------------------------------------------------
(* HtmlGenericStrategy.runWithColly, the pagination loop: internal/ingest/strategy_html.go *)

\* the strategy starts: maxPages defaults to 1, the base URL must parse
CrawlBegin(config) ==
    /\ crawl.pc = "idle"
    /\ crawl' =
          IF ~ParsedBaseURL[config.BaseURL].ok
          THEN [crawl EXCEPT !.pc = "returned", !.err = "invalid base URL",
                             !.MaxPages = config.MaxPages, !.Next = config.Next]
          ELSE [crawl EXCEPT !.pc = "loop",
                             !.MaxPages = config.MaxPages,
                             !.Next = config.Next,
                             !.maxPages = IF config.MaxPages = 0 THEN 1 ELSE config.MaxPages,
                             !.currentURL = config.BaseURL]
    /\ UNCHANGED beyondCrawl

\* visitedURLs[canonPage]
visitedURLs_Never(canonPage) == FALSE

visitedURLs(canonPage) == canonPage \in crawl.visitedURLs

\* the head of the loop: the page cap, then the cycle test on the canonicalized URL
CrawlLoop ==
    /\ crawl.pc = "loop"
    /\ LET canonPage == CanonicalPage[crawl.currentURL]
       IN  IF ~(crawl.pageCount < crawl.maxPages) \/ visitedURLs(canonPage)
           THEN crawl' = [crawl EXCEPT !.pc = "returned"]
           ELSE crawl' = [crawl EXCEPT !.pc = "visit",
                                       !.visitedURLs = @ \cup {canonPage},
                                       !.pageCount = @ + 1,
                                       !.nextPageURL = ""]
    /\ UNCHANGED beyondCrawl

\* collector.Visit(currentURL) and collector.Wait(): the visit fails, or the page comes and
\* the pagination selector, when one is configured, matches the links in hrefs in turn
CrawlVisit(visited, hrefs) ==
    /\ crawl.pc = "visit"
    /\ LET nextPageURL == IF crawl.Next = "" \/ hrefs = <<>> THEN ""
                          ELSE AbsoluteLink[hrefs[Len(hrefs)]]
           fetched == Append(crawl.fetched, crawl.currentURL)
       IN  IF ~visited
           THEN crawl' = [crawl EXCEPT !.pc = "returned", !.fetched = fetched]
           ELSE IF nextPageURL = "" \/ crawl.Next = ""
           THEN crawl' = [crawl EXCEPT !.pc = "returned", !.fetched = fetched,
                                       !.nextPageURL = nextPageURL]
           ELSE crawl' = [crawl EXCEPT !.pc = "loop", !.fetched = fetched,
                                       !.nextPageURL = nextPageURL,
                                       !.currentURL = nextPageURL]
    /\ UNCHANGED beyondCrawl

-----------------------------------------------------------------------------
(* Crawl harness: the configurations and what the pages link to *)

\* the largest max_pages a source is configured with
MaxPagesCap == 3

Hrefs == {<<>>} \cup {<<href>> : href \in LinkURLs}
         \cup {<<"https://example.org/g?page=4", "https://example.org/g">>}

CrawlConfigs == [BaseURL : BaseURLs, MaxPages : 0..MaxPagesCap, Next : {"", "a.next"}]

InitCrawlHarness ==
    /\ rows = NoRows
    /\ lastOp = NoOp
    /\ maxWritten = NoWrites
    /\ now = 1
    /\ opp = ZeroOpp
    /\ decision = NoDecision
    /\ picked = Unpicked
    /\ InitRest

NextCrawl ==
    \/ \E config \in CrawlConfigs : CrawlBegin(config)
    \/ CrawlLoop
    \/ \E visited \in BOOLEAN, hrefs \in Hrefs : CrawlVisit(visited, hrefs)

\* the loop is straight-line code of one goroutine: a step that can be taken is taken
SpecCrawl == InitCrawlHarness /\ [][NextCrawl]_vars /\ WF_vars(NextCrawl)

-----------------------------------------------------------------------------
(* Properties of the status engine *)

\* the source status the engine maps: source_status_raw, else opp_status
MappedSourceStatus(o) ==
    IF mapSourceStatusRaw(o.SourceStatusRaw) # ""
    THEN mapSourceStatusRaw(o.SourceStatusRaw)
    ELSE mapSourceStatusRaw(o.OppStatus)

\* a results keyword occurs in one of the four matched text fields
ResultsKeywordInText(o) ==
    \E field \in {o.Title, o.Summary, HTMLToText(o.Description), o.SourceStatusRaw} :
        \E k \in resultsKeywords : Contains(ToLower(field), k)

ActiveOppStatus(o) == o.OppStatus \in {"posted", "active", "open", "forecasted"}

\* the same, whatever the letter case of opp_status
ActiveOppStatusFold(o) == ToLower(o.OppStatus) \in {"posted", "active", "open", "forecasted"}

\* every instant the record offers as a deadline candidate
AllCandidates(o) ==
    ParsedDeadlines(o.Deadlines) \cup ParsedEvidence(o.DeadlineEvidence)
    \cup SeqToSet(o.NextDeadlineAt) \cup SeqToSet(o.DeadlineAt)

CloseWords == {"cierre", "deadline", "closes", "submission", "postul"}
StartWords == {"inicio", "apertura", "start", "opening"}

\* an evidence entry labelled as a closing date: label or snippet close-like,
\* neither of them start-like
CloseLabelled(ev) ==
    /\ \E w \in CloseWords : Contains(ToLower(ev.Label), w) \/ Contains(ToLower(ev.Snippet), w)
    /\ \A w \in StartWords : ~Contains(ToLower(ev.Label), w) /\ ~Contains(ToLower(ev.Snippet), w)

FutureCloseLabelled(o, t) ==
    {d \in (t + 1)..9 :
        \E i \in DOMAIN o.DeadlineEvidence :
            /\ CloseLabelled(o.DeadlineEvidence[i])
            /\ parseDeadlineCandidate(o.DeadlineEvidence[i].ParsedDateISO) = [ok |-> TRUE, t |-> d]}

DecisionTriple(d) == <<d.NormalizedStatus, d.StatusReason, d.StatusConfidence>>

\* the rule list of the engine, in its specified order
EngineRules(o, t) ==
    LET mapped == MappedSourceStatus(o)
        rolling == detectRollingEvidence(o)
        futureDeadline == \E c \in AllCandidates(o) : c > t
        futureClose == IsSet(o.CloseAt) /\ Val(o.CloseAt) > t
        past(p) == IsSet(p) /\ Val(p) <= t
    IN  << [when |-> (ResultsKeywordInText(o) /\ ~ActiveOppStatusFold(o)) \/ o.IsResultsPage,
            out |-> <<"closed", "results_page", 99>>],
           [when |-> mapped = "archived", out |-> <<"archived", "source_archived", 95>>],
           [when |-> mapped = "closed" /\ (rolling \/ futureDeadline \/ futureClose),
            out |-> <<"needs_review", "inconsistent_dates", 35>>],
           [when |-> mapped = "closed", out |-> <<"closed", "source_closed", 92>>],
           [when |-> IsSet(o.OpenAt) /\ Val(o.OpenAt) > t,
            out |-> <<"upcoming", "open_date_in_future", 90>>],
           [when |-> o.IsRolling /\ ~rolling,
            out |-> <<"needs_review", "rolling_without_evidence", 20>>],
           [when |-> rolling, out |-> <<"open", "rolling_open", 96>>],
           [when |-> futureDeadline, out |-> <<"open", "future_deadline", 93>>],
           [when |-> futureClose, out |-> <<"open", "future_close_date", 90>>],
           [when |-> past(o.CloseAt), out |-> <<"closed", "close_date_passed", 94>>],
           [when |-> past(o.ExpirationAt), out |-> <<"closed", "expiration_passed", 90>>],
           [when |-> past(o.DeadlineAt), out |-> <<"closed", "deadline_passed", 95>>],
           [when |-> hasAnyDeadlineEvidence(o), out |-> <<"closed", "deadline_passed", 95>>],
           [when |-> mapped = "upcoming", out |-> <<"upcoming", "source_upcoming", 75>>],
           [when |-> mapped = "open",
            out |-> <<"needs_review", "source_open_without_time_evidence", 30>>],
           [when |-> AllCandidates(o) = {} /\ ~rolling /\ ~futureClose,
            out |-> <<"needs_review", "missing_deadline", 25>>],
           [when |-> TRUE, out |-> <<"needs_review", "inconsistent_dates", 40>>] >>

MatchingRules(o, t) ==
    LET rules == EngineRules(o, t) IN {i \in DOMAIN rules : rules[i].when}

FirstMatch(o, t) ==
    LET rules == EngineRules(o, t)
    IN  rules[SetMin({i \in DOMAIN rules : rules[i].when})].out

Orig_C6_ResultsPageOnlyOnKeyword ==
    (Decided /\ (decision.StatusReason = "results_page" \/ decision.IsResultsPage))
        => (ResultsKeywordInText(opp) /\ ~ActiveOppStatus(opp))

\* C6 (amended): the results-page decision (closed, results_page, flag set) is
\* returned only when the record already carries is_results_page=true, or a
\* results keyword occurs in title, summary, description or source_status_raw
\* and opp_status is none of posted, active, open, forecasted; the external
\* URL has no influence on the decision
Thm_C6_ResultsPageOnlyOnKeywordOrFlag ==
    Decided =>
        /\ (decision.StatusReason = "results_page" \/ decision.IsResultsPage)
             => /\ decision.NormalizedStatus = "closed"
                /\ decision.StatusReason = "results_page"
                /\ decision.IsResultsPage
                /\ \/ opp.IsResultsPage
                   \/ (ResultsKeywordInText(opp) /\ ~ActiveOppStatus(opp))
        /\ \A u \in EngineURLs \cup {""} :
             ComputeStatusDecision([opp EXCEPT !.ExternalURL = u], now) = decision

\* a keyword in the text with the flag unset decides results_page, and a
\* keyword in the URL alone does not
Wit_C6_KeywordDecides ==
    /\ Decided
    /\ decision.StatusReason = "results_page"
    /\ ~opp.IsResultsPage
    /\ ResultsKeywordInText(opp)

\* C7 (as claimed): a source status that maps to closed yields needs_review /
\* inconsistent_dates / 0.35 when rolling evidence or a future deadline or
\* close_at contradicts it, and closed / source_closed / 0.92 otherwise
Orig_C7_SourceClosed ==
    (Decided /\ MappedSourceStatus(opp) = "closed") =>
        DecisionTriple(decision) =
            IF \/ detectRollingEvidence(opp)
               \/ \E c \in AllCandidates(opp) : c > now
               \/ AfterNow(opp.CloseAt, now)
            THEN <<"needs_review", "inconsistent_dates", 35>>
            ELSE <<"closed", "source_closed", 92>>

\* C7 (amended): the same, for a record the results-page rule does not claim
\* first (no is_results_page flag and no results keyword with a non-active
\* opp_status)
Thm_C7_SourceClosedUnlessResultsPage ==
    (/\ Decided
     /\ MappedSourceStatus(opp) = "closed"
     /\ ~opp.IsResultsPage
     /\ ~(ResultsKeywordInText(opp) /\ ~ActiveOppStatusFold(opp))) =>
        DecisionTriple(decision) =
            IF \/ detectRollingEvidence(opp)
               \/ \E c \in AllCandidates(opp) : c > now
               \/ AfterNow(opp.CloseAt, now)
            THEN <<"needs_review", "inconsistent_dates", 35>>
            ELSE <<"closed", "source_closed", 92>>

\* a closed source contradicted by a future close_at only
Wit_C7_ClosedButFutureCloseAt ==
    /\ Decided
    /\ MappedSourceStatus(opp) = "closed"
    /\ AfterNow(opp.CloseAt, now)
    /\ ~detectRollingEvidence(opp)
    /\ \A c \in AllCandidates(opp) : c <= now
    /\ decision.StatusReason = "inconsistent_dates"

\* C8 (as claimed): a non-nil next_deadline_at returned by the engine is
\* strictly after now
Orig_C8_NextDeadlineInFuture ==
    (Decided /\ IsSet(decision.NextDeadlineAt)) => Val(decision.NextDeadlineAt) > now

\* C8 (amended): a non-nil next_deadline_at returned by the engine is strictly
\* after now, unless the record offers no strictly-future candidate, in which
\* case the record's stored next_deadline_at is returned as it is
Thm_C8_NextDeadlineInFutureOrStored ==
    (Decided /\ IsSet(decision.NextDeadlineAt)) =>
        \/ Val(decision.NextDeadlineAt) > now
        \/ /\ decision.NextDeadlineAt = opp.NextDeadlineAt
           /\ \A c \in AllCandidates(opp) : c <= now

\* a future date derived from the candidates although the stored one is past
Wit_C8_DerivedFutureDeadline ==
    /\ Decided
    /\ IsSet(decision.NextDeadlineAt)
    /\ Val(decision.NextDeadlineAt) > now
    /\ IsSet(opp.NextDeadlineAt)
    /\ Val(opp.NextDeadlineAt) <= now

\* the instants after t at which the record is decided again
LaterThan(t) == (t + 1)..(MaxTime + 1)

\* C29: a record ComputeStatusDecision classifies closed at an instant is
\* classified closed at every later instant
Thm_C29_ClosedStaysClosed ==
    (Decided /\ decision.NormalizedStatus = "closed") =>
        \A later \in LaterThan(now) :
            ComputeStatusDecision(opp, later).NormalizedStatus = "closed"

\* a record closed because its deadline has passed, which was open an instant
\* earlier and is closed an instant later under the same rule
Wit_C29_ClosedSinceDeadlinePassed ==
    /\ Decided /\ now > 1
    /\ decision.NormalizedStatus = "closed" /\ decision.StatusReason = "deadline_passed"
    /\ ComputeStatusDecision(opp, now - 1).NormalizedStatus = "open"
    /\ ComputeStatusDecision(opp, now + 1).StatusReason = "deadline_passed"

-----------------------------------------------------------------------------
(* Properties of SaveOpportunity and its upsert *)

RowKey(r) == KeyOf(r.source_domain, r.source_id)

\* the last step was a successful SaveOpportunity of row r's key
LastWrote(op, r) ==
    /\ op.kind = "save" /\ op.ok
    /\ KeyOf(op.source_domain, op.source_id) = RowKey(r)

\* C1: after any sequence of upserts of a key, the stored status_confidence is
\* the maximum of the confidences the individual writes carried
Thm_C1_ConfidenceIsMaxOfWrites ==
    /\ \A i \in DOMAIN rows :
          /\ RowKey(rows[i]) \in DOMAIN maxWritten
          /\ rows[i].status_confidence = maxWritten[RowKey(rows[i])]
    /\ \A k \in DOMAIN maxWritten : \E i \in DOMAIN rows : RowKey(rows[i]) = k

\* the last write of a key carried less confidence than an earlier one
Wit_C1_LowerConfidenceWrittenLast ==
    \E i \in DOMAIN rows :
        /\ LastWrote(lastOp, rows[i])
        /\ lastOp.confidence < rows[i].status_confidence

\* the last step was a successful SaveOpportunity of row r, of a source that
\* is not API-first; the stored normalized_status and status_reason are those
\* of its decision, and lastOp.confidence is the confidence of that decision
LastDecided(op, r) == LastWrote(op, r) /\ ~isAPIFirstSource(r.source_domain)

\* C28 (as claimed): after any sequence of upserts of the key of a row that
\* is not API-first, the stored status_confidence is the confidence of the
\* decision that produced the stored normalized_status and status_reason
Orig_C28_ConfidenceOfStoredDecision ==
    \A i \in DOMAIN rows :
        LastDecided(lastOp, rows[i]) => rows[i].status_confidence = lastOp.confidence

\* C28 (amended): after any sequence of upserts of the key of a row that is
\* not API-first, the stored status_confidence is at least the confidence of
\* the decision that produced the stored normalized_status and status_reason,
\* and equal to it when the write inserted the row
Thm_C28_ConfidenceAtLeastStoredDecision ==
    \A i \in DOMAIN rows :
        LastDecided(lastOp, rows[i])
           => /\ rows[i].status_confidence >= lastOp.confidence
              /\ lastOp.inserted => rows[i].status_confidence = lastOp.confidence

\* an upsert has replaced the status of a row by a decision of lower
\* confidence than the one the row keeps
Wit_C28_StatusReplacedConfidenceKept ==
    \E i \in DOMAIN rows :
        /\ LastDecided(lastOp, rows[i]) /\ ~lastOp.inserted
        /\ rows[i].normalized_status = "needs_review"
        /\ rows[i].status_confidence > lastOp.confidence

\* C2 (as claimed): once a row's opp_status is closed, archived or funded, an
\* upsert of its key that carries an empty or posted opp_status leaves the
\* row's opp_status as it was
Orig_C2_ClosedStatusKept ==
    [][\A i \in DOMAIN rows :
          (/\ LastWrote(lastOp', rows[i])
           /\ TextOf(rows[i].opp_status) \in TerminalOppStatus
           /\ lastOp'.opp_status \in {"", "posted"})
          => rows'[i].opp_status = rows[i].opp_status]_vars

NonEmptySourceIDs == \A i \in DOMAIN rows : TrimSpace(rows[i].source_id) # ""

UniqueKeys ==
    \A i, j \in DOMAIN rows : RowKey(rows[i]) = RowKey(rows[j]) => i = j

\* C4: SaveOpportunity with an empty or white-space-only source_id fails and
\* writes no row; every stored row has a non-empty source_id and no two rows
\* share (source_domain, source_id)
Thm_C4_SourceIDRequiredKeysUnique ==
    /\ [](NonEmptySourceIDs /\ UniqueKeys)
    /\ [][(lastOp'.kind = "save" /\ TrimSpace(lastOp'.source_id) = "")
            => (~lastOp'.ok /\ rows' = rows)]_vars

\* a white-space-only source_id was just refused while two rows that share a
\* source_id under different domains are stored
Wit_C4_BlankSourceIDRefused ==
    /\ lastOp.kind = "save" /\ ~lastOp.ok
    /\ lastOp.source_id # "" /\ TrimSpace(lastOp.source_id) = ""
    /\ Len(rows) = 2
    /\ rows[1].source_id = rows[2].source_id

-----------------------------------------------------------------------------
(* Properties of the sweeps *)

\* C3 (as claimed): every stored row with rolling_evidence = false has
\* is_rolling = false
Orig_C3_RollingNeedsEvidence ==
    \A i \in DOMAIN rows : ~rows[i].rolling_evidence => ~rows[i].is_rolling

\* C10 (as claimed): when RecomputeStatuses runs twice back to back, the
\* second run updates no row
Orig_C10_SecondRecomputeUpdatesNothing ==
    [][(lastOp.kind = "recompute" /\ lastOp'.kind = "recompute")
         => lastOp'.updated = 0]_vars

\* C10 (amended): when RecomputeStatuses runs twice back to back at the same
\* clock instant and the LLM, where it is asked, answers the second run as it
\* answered the first, the second run updates no row
Thm_C10_SecondRecomputeSameAnswers ==
    [][(/\ lastOp.kind = "recompute" /\ lastOp'.kind = "recompute"
        /\ lastOp'.answers = lastOp.answers)
         => lastOp'.updated = 0]_vars

\* a second run in a row has just left alone a row that an earlier run
\* classified with the LLM
Wit_C10_SecondRunAfterLLMClassification ==
    /\ lastOp.kind = "recompute" /\ lastOp.runs = 2 /\ lastOp.updated = 0
    /\ \E i \in DOMAIN rows :
          /\ lastOp.answers[i] = "closed"
          /\ rows[i].status_reason = Ptr("llm_classified_closed")

\* the LLM client is absent: no row gets an answer
NoLLM(answers) == \A i \in DOMAIN answers : answers[i] = ""

\* C27: a row SaveOpportunity has just inserted keeps its normalized_status,
\* status_reason and next_deadline_at when RecomputeStatuses runs next, at
\* the same instant and without LLM client
Orig_C27_InsertedRowIsFixedPoint ==
    [][(/\ lastOp.kind = "save" /\ lastOp.inserted
        /\ lastOp'.kind = "recompute" /\ NoLLM(lastOp'.answers) /\ now' = now)
         => \A i \in DOMAIN rows :
               LastWrote(lastOp, rows[i])
                  => /\ rows'[i].normalized_status = rows[i].normalized_status
                     /\ rows'[i].status_reason = rows[i].status_reason
                     /\ rows'[i].next_deadline_at = rows[i].next_deadline_at]_vars

\* this step sets the normalized_status of row j to open: the upsert of
\* SaveOpportunity wrote the row, or the UPDATE of RecomputeStatuses touched it
SetOpen(j) ==
    /\ rows'[j].normalized_status = "open"
    /\ \/ lastOp'.kind = "save" /\ LastWrote(lastOp', rows'[j])
       \/ lastOp'.kind = "recompute" /\ rows'[j] # rows[j]

\* C30: a row whose normalized_status SaveOpportunity or RecomputeStatuses
\* sets to open satisfies the predicate of the open tab at that moment
Orig_C30_OpenRowsAreListed ==
    [][\A j \in DOMAIN rows' : SetOpen(j) => buildOpenTabConstraint(rows'[j], now')]_vars

\* C26: no step of SaveOpportunity, EnrichOpportunities or RecomputeStatuses
\* lowers the status_confidence of a stored row
Orig_C26_ConfidenceNeverDecreases ==
    [][\A i \in DOMAIN rows : \A j \in DOMAIN rows' :
          RowKey(rows'[j]) = RowKey(rows[i])
             => rows'[j].status_confidence >= rows[i].status_confidence]_vars

-----------------------------------------------------------------------------
(* Properties of the background recompute job *)

RunningJobs == {j \in DOMAIN jobs : jobs[j].Status = "running"}

\* request r leaves the test of the job slot in this step
Checks(r) == requests[r].pc = "check" /\ requests'[r].pc # "check"

\* C11: at most one job is running at any time, and a request that tests the
\* slot while a job is running is answered 409 with that job's id, and neither
\* allocates a job nor replaces the slot
Thm_C11_OneRunningJobElseConflict ==
    /\ [](Cardinality(RunningJobs) <= 1)
    /\ [][\A r \in Requests :
            (Checks(r) /\ RunningJobs # {}) =>
                /\ requests'[r].code = 409
                /\ runningJob \in RunningJobs
                /\ requests'[r].job_id = jobs[runningJob].ID
                /\ jobs' = jobs
                /\ runningJob' = runningJob]_vars

\* a request was refused with the id of the job that is still running
Wit_C11_ConflictWhileRunning ==
    \E r \in Requests :
        /\ requests[r].code = 409
        /\ runningJob \in RunningJobs
        /\ requests[r].job_id = jobs[runningJob].ID

Ended(j) == j \in DOMAIN jobs /\ jobs[j].Status \in {"completed", "failed"}

\* C12: every job that is started leaves running for completed or failed, whatever
\* becomes of the request that started it, and a completed or failed job keeps
\* its status
Thm_C12_JobEndsAndStaysEnded ==
    /\ \A j \in Requests : (j \in RunningJobs) ~> Ended(j)
    /\ [][\A j \in Requests : Ended(j) => jobs'[j].Status = jobs[j].Status]_vars

\* a job ended by the deadline of its context after its request was cancelled
Wit_C12_EndedAfterRequestCancelled ==
    \E j \in DOMAIN jobs, r \in Requests :
        /\ jobs[j].Status = "failed"
        /\ jobs[j].Error = "recompute status update failed"
        /\ requests[r].code = 202
        /\ requests[r].job_id = jobs[j].ID
        /\ requests[r].cancelled

-----------------------------------------------------------------------------
(* Properties of SaveOpportunity calls running side by side *)

\* the table after the calls ran one after the other, first then second
SerialRows(first, second) ==
    SaveOutcome(calls[second].opp,
                SaveOutcome(calls[first].opp, startRows, now, calls[first].x,
                            NoCandidates).rows,
                now, calls[second].x, NoCandidates).rows

\* the lifecycle and deadline columns of the stored rows of the listing
LifecycleOf(rs) ==
    {[normalized_status |-> rs[i].normalized_status,
      status_reason |-> rs[i].status_reason,
      status_confidence |-> rs[i].status_confidence,
      opp_status |-> rs[i].opp_status,
      is_rolling |-> rs[i].is_rolling,
      deadline_at |-> rs[i].deadline_at,
      next_deadline_at |-> rs[i].next_deadline_at,
      close_at |-> rs[i].close_at,
      expiration_at |-> rs[i].expiration_at] :
        i \in RowsOfSource(rs, ListingOpp.SourceDomain, ListingOpp.SourceID)}

BothDone == calls # NoCalls /\ \A c \in Callers : calls[c].pc = "done"

\* C13: once two concurrent SaveOpportunity calls on one (source_domain,
\* source_id) have both returned, the lifecycle and deadline columns of the
\* stored row are those the two calls leave when run one after the other, in
\* one order or the other
Orig_C13_ConcurrentSavesSerializable ==
    BothDone => LifecycleOf(rows) \in {LifecycleOf(SerialRows(1, 2)),
                                       LifecycleOf(SerialRows(2, 1))}

-----------------------------------------------------------------------------
(* Properties of the rate-limited fetcher *)

\* the ranges no fetch may reach: loopback, link-local, RFC 1918, CGNAT,
\* fc00::/7, multicast and the unspecified addresses
PolicyPrefixes ==
    {Prefix(V4(127, 0, 0, 0), 8), Prefix(V6(0, 0, 1), 128),
     Prefix(V4(169, 254, 0, 0), 16), Prefix(V6(254, 128, 0), 10),
     Prefix(V4(10, 0, 0, 0), 8), Prefix(V4(172, 16, 0, 0), 12), Prefix(V4(192, 168, 0, 0), 16),
     Prefix(V4(100, 64, 0, 0), 10), Prefix(V6(252, 0, 0), 7),
     Prefix(V4(224, 0, 0, 0), 4), Prefix(V6(255, 0, 0), 8),
     Prefix(V4(0, 0, 0, 0), 32), Prefix(V6(0, 0, 0), 128)}

Forbidden(ip) == \E prefix \in PolicyPrefixes : PrefixContains(prefix, Unmap(ip))

\* the fetcher holds a connection to fetch.host, dialed after the lookup fetch.ips
Connected == fetch.pc = "respond"

\* the fetcher follows a redirect to fetch.host, accepted after the lookup fetch.ips
Redirected == fetch.pc = "dial" /\ fetch.via > 0

\* C14: the fetcher connects to a host, on the first request and on every
\* redirect hop, and follows a redirect to a host, only when none of the
\* addresses the host resolved to is loopback, link-local, RFC 1918, CGNAT
\* 100.64.0.0/10, fc00::/7, multicast or unspecified
Orig_C14_NoForbiddenAddressReached ==
    (Connected \/ Redirected) => \A ip \in fetch.ips : ~Forbidden(ip)

\* the outcomes of an attempt after which another may follow
Retryable(outcome) ==
    \/ outcome.kind = "timeout"
    \/ outcome.kind = "status" /\ outcome.status \in {429, 500, 502, 503, 504}

\* a response that is neither 200 nor one of the retried statuses
Refused(outcome) ==
    outcome.kind = "status" /\ outcome.status # 200 /\ ~Retryable(outcome)

\* C15: Fetch makes at most MaxRetries+1 attempts; an attempt after the first
\* is made only when the one before it ended in a network timeout or in HTTP
\* 429, 500, 502, 503 or 504; any other non-200 response ends the call with an
\* error at the attempt that received it
Thm_C15_RetryOnlyTransient ==
    /\ [](fetch.tries <= MaxRetries + 1)
    /\ [][fetch'.tries > fetch.tries => (fetch.tries = 0 \/ Retryable(fetch.last))]_vars
    /\ [](Refused(fetch.last) => fetch.pc = "done" /\ fetch.result = "error")

Wit_C15_RetriesExhausted ==
    /\ fetch.tries = MaxRetries + 1
    /\ fetch.tries > 1
    /\ fetch.pc = "done"
    /\ fetch.err = "max retries exceeded"
    /\ fetch.last = Status(503)

-----------------------------------------------------------------------------
(* Properties of the ingest run record *)

\* the run has returned and its row of ingest_runs was updated
Recorded == ingest.pc = "done" /\ ingest.run.status \notin {"", "running"}

\* C16: a finished run that found at least one item and saved none is
\* recorded 'failed'; a finished run that saved at least one item is recorded
\* 'completed', whatever its count of per-item errors
Orig_C16_FailedIffNothingSaved ==
    Recorded =>
       /\ (ingest.run.items_found >= 1 /\ ingest.run.items_saved = 0)
             => ingest.run.status = "failed"
       /\ ingest.run.items_saved >= 1 => ingest.run.status = "completed"

\* IngestSource has returned, having created a row of ingest_runs, and the
\* database did not fail of its own
Returned == ingest.pc = "done" /\ ingest.runID # "" /\ ingest.execErr # "connection lost"

\* C24: when IngestSource returns, the row of ingest_runs it created with
\* status running has status completed or failed and its completed_at set,
\* also when the strategy returned an error or the context was cancelled
Orig_C24_RunRowClosedOnReturn ==
    Returned => ingest.run.status \in {"completed", "failed"} /\ IsSet(ingest.run.completed_at)

\* the number of requests whose page covers position i of the result set
TimesAsked(i) ==
    Cardinality({k \in 1..Len(ingest.asked) :
                   ingest.asked[k] < i /\ i <= ingest.asked[k] + PageSize})

\* GrantsGovStrategy.Run has returned without error
RunReturned == ingest.pc = "done" /\ ingest.err = "" /\ ingest.asked # <<>>

\* C25: when GrantsGovStrategy.Run returns without error, every record of
\* the result set was requested exactly once, and every record that was not
\* dropped was passed to SaveOpportunity
Orig_C25_EveryRecordRequestedOnce ==
    RunReturned =>
       \A i \in 1..Len(ingest.source) :
          /\ TimesAsked(i) = 1
          /\ ~Dropped(ingest.source[i], now) => i \in ingest.passed

-----------------------------------------------------------------------------
(* Properties of the store's queries *)

\* the last answer is a list of the open tab, asked by name or by default
OpenListed == queried.kind = "list" /\ queried.params.Status \in {"", "open"}

\* C17: every row ListOpportunities returns for status=open, or for no
\* status, has normalized_status 'open', is no results page, and has rolling
\* evidence, or a next_deadline_at not before the time of the query, or a
\* close_at not before it
Thm_C17_OpenTabIsStrict ==
    OpenListed =>
       \A k \in DOMAIN queried.Opportunities :
          LET r == queried.Opportunities[k]
          IN  /\ r.normalized_status = "open"
              /\ ~r.is_results_page
              /\ \/ r.rolling_evidence
                 \/ IsSet(r.next_deadline_at) /\ Val(r.next_deadline_at) >= queried.at
                 \/ IsSet(r.close_at) /\ Val(r.close_at) >= queried.at

\* the open tab returned rows and left out a stored row whose status is 'open'
Wit_C17_OpenRowLeftOut ==
    /\ OpenListed
    /\ queried.params.Region = <<>>
    /\ Len(queried.Opportunities) >= 1
    /\ Len(queried.Opportunities) = queried.Total
    /\ \E i \in DOMAIN rows :
          /\ rows[i].normalized_status = "open"
          /\ ~rows[i].rolling_evidence
          /\ ~IsSet(rows[i].next_deadline_at)
          /\ \A k \in DOMAIN queried.Opportunities :
                queried.Opportunities[k].source_id # rows[i].source_id

Dimensions == {"region", "funder_type", "agency_name", "country"}

\* the two queries give for status a what they give for status b, the
\* other parameters and the table being the same
SameAnswers(a, b) ==
    \A sel \in QuerySelections :
       /\ ListMatches(rows, [sel EXCEPT !.Status = a], now)
             = ListMatches(rows, [sel EXCEPT !.Status = b], now)
       /\ \A dimension \in Dimensions :
             FacetCounts(rows, [sel EXCEPT !.Status = a], dimension, now)
                = FacetCounts(rows, [sel EXCEPT !.Status = b], dimension, now)

\* C18: for the same other parameters and the same table, ListOpportunities
\* selects the same rows and GetAggregations gives the same facet counts for
\* status=posted, for status=active and for status=open
Orig_C18_PostedAndActiveAreOpen ==
    SameAnswers("posted", "open") /\ SameAnswers("active", "open")

\* the parameter that selects on a dimension, and the facet that counts it
ParamOf == [region |-> "Region", funder_type |-> "FunderType",
            agency_name |-> "AgencyName", country |-> "Country"]

FacetOf == [region |-> "Regions", funder_type |-> "FunderTypes",
            agency_name |-> "Agencies", country |-> "Countries"]

\* the rows a list shows under params once the selection on dimension is cleared
ShownWithout(rs, params, dimension, t) ==
    {i \in DOMAIN rs : ListWhere(rs[i], [params EXCEPT ![ParamOf[dimension]] = <<>>], t)}

\* the facet of dimension counts, value by value, the rows of shown
CountsRows(facet, rs, shown, dimension) ==
    /\ \A i \in shown :
          IsSet(rs[i][dimension]) => \E ag \in facet : ag.Value = Val(rs[i][dimension])
    /\ \A ag \in facet :
          ag.Value # "Unknown" =>
             ag.Count = Cardinality({i \in shown : rs[i][dimension] = Ptr(ag.Value)})

\* C19: GetAggregations counts each dimension (region, funder type, agency,
\* country) over the rows that pass the status constraint and the selections
\* of the other dimensions, the dimension's own selection being left out
Thm_C19_FacetOmitsOwnSelection ==
    [][(queried'.kind = "aggregations" /\ queried' # queried) =>
          \A dimension \in Dimensions :
             CountsRows(queried'[FacetOf[dimension]], rows,
                        ShownWithout(rows, queried'.params, dimension, queried'.at),
                        dimension)]_vars

\* with Europe and Government selected, the regions still count Africa and
\* the funder types still count the foundations
Wit_C19_OtherRegionsStillCounted ==
    /\ queried.kind = "aggregations"
    /\ queried.params.Region = <<"Europe">>
    /\ queried.params.FunderType = <<"Government">>
    /\ [Value |-> "Africa", Count |-> 1] \in queried.Regions
    /\ [Value |-> "Europe", Count |-> 1] \in queried.Regions
    /\ [Value |-> "Foundation", Count |-> 1] \in queried.FunderTypes

-----------------------------------------------------------------------------
(* Properties of ApplyMigrations *)

\* within one call the files are executed in ascending order of their names
ExecutedInOrder ==
    \A i, j \in DOMAIN migrate.executed :
       (i < j /\ migrate.executed[i].run = migrate.executed[j].run) =>
          StringLess(migrate.executed[i].file, migrate.executed[j].file)

\* every executed file was unapplied when it ran, and is a migration file of the directory
ExecutedWereUnapplied ==
    [][\A f \in migrate.schema_migrations :
          \A k \in DOMAIN migrate'.executed :
             k > Len(migrate.executed) => migrate'.executed[k].file # f]_vars

\* a call that returns nil leaves every migration file of the directory recorded
RecordedOnSuccess ==
    (migrate.pc = "returned" /\ migrate.err = "" /\ migrate.runs > 0) =>
       migrationFiles(migrate.listed) \subseteq migrate.schema_migrations

\* over all the calls made, no file is executed twice
NeverExecutedTwice ==
    \A i, j \in DOMAIN migrate.executed :
       i # j => migrate.executed[i].file # migrate.executed[j].file

\* C20: ApplyMigrations executes the unapplied migration files in lexicographic filename
\* order and records each one in schema_migrations, and a later call, made after a
\* restart, executes no migration file a second time
Orig_C20_MigrationsRunOnce ==
    /\ ExecutedInOrder
    /\ RecordedOnSuccess
    /\ NeverExecutedTwice

-----------------------------------------------------------------------------
(* Properties of CanonicalizeURL *)

\* a result that holds no tracking parameter, no upper-case host and no fragment
Canonical(result) ==
    /\ ~Contains(result, "#")
    /\ Parse(result).ok
    /\ Parse(result).Host = ToLower(Parse(result).Host)
    /\ \A i \in DOMAIN Query(Parse(result)) :
          LET k == Query(Parse(result))[i].key
          IN  k \notin exactParamsToRemove /\ \A prefix \in paramsToRemovePrefix : ~HasPrefix(k, prefix)

Idempotent == canon.pc = "twice" => canon.twice = canon.once

\* C21 as stated: for every string given, the result is a fixed point of CanonicalizeURL
\* and has its tracking parameters removed, its host lowercased and its fragment dropped
Orig_C21_CanonicalizeIdempotent ==
    /\ Idempotent
    /\ canon.pc \in {"once", "twice"} => Canonical(canon.once)

\* C21: for every string given, the result is a fixed point of CanonicalizeURL; when
\* url.Parse accepts the string the result has its tracking parameters removed, its host
\* lowercased and its fragment dropped, and when url.Parse rejects it the string is
\* returned as it was given
Thm_C21_CanonicalizeIdempotentWhenParsed ==
    /\ Idempotent
    /\ canon.pc \in {"once", "twice"} =>
          IF Parse(canon.raw).ok THEN Canonical(canon.once) ELSE canon.once = canon.raw

\* a URL with an upper-case host, tracking parameters and a fragment, canonicalized twice
Wit_C21_TrackingParamsDropped ==
    /\ canon.pc = "twice"
    /\ canon.raw = "HTTPS://Example.ORG:8080/a%20b/C?b=2&a=1&ref=3&b=1#top"
    /\ canon.once = "https://example.org:8080/a%20b/C?a=1&b=2&b=1"
    /\ canon.twice = canon.once

-----------------------------------------------------------------------------
(* Properties of the pagination loop *)

\* no two list pages passed to collector.Visit have the same canonicalized URL
NoPageTwice ==
    \A i, j \in DOMAIN crawl.fetched :
       i # j => CanonicalPage[crawl.fetched[i]] # CanonicalPage[crawl.fetched[j]]

\* C22: whatever next links the site serves, cycles included, the pagination loop ends;
\* it never visits a list page whose canonicalized URL it has visited before, and it
\* visits at most maxPages list pages (max_pages, or 1 when max_pages is 0)
Thm_C22_PaginationTerminates ==
    /\ [](NoPageTwice /\ Len(crawl.fetched) <= crawl.maxPages)
    /\ <>(crawl.pc = "returned")

\* the next link of the second page leads back, under a tracking parameter, to a page
\* already visited, and the loop stops below its cap
Wit_C22_CycleStopped ==
    /\ crawl.pc = "returned"
    /\ crawl.maxPages = 3
    /\ Len(crawl.fetched) = 2
    /\ crawl.fetched[2] = "https://example.org/g?page=2"
    /\ crawl.currentURL = "https://Example.org/g?utm_source=next&page=2#list"

-----------------------------------------------------------------------------
(* Properties of Fetch under a context that ends *)

\* after the context ended at the given wait, no client.Do was called and, once Fetch has
\* returned, it has returned ctx.Err()
StopsAfter(wait) ==
    fetch.endedAt = wait =>
       /\ fetch.tries = fetch.triesThen
       /\ fetch.pc = "done" => (fetch.result = "error" /\ fetch.err = "context")

\* C23: when the context is cancelled while Fetch waits on the ticker of the domain or in
\* the backoff sleep between attempts, Fetch starts no further HTTP attempt and returns
\* the context's error
Orig_C23_CancelledWhileWaiting == StopsAfter("limiter") /\ StopsAfter("backoff")

====
